---- MODULE Spec2Model ----
(***************************************************************************)
(* Buyer-property matching engine of landconnect-backend                   *)
(* (src/buyer/utils.py).  Python str values are sequences of one-character *)
(* strings, so that splitting, trimming, case folding and the postal-code  *)
(* regular expressions are computed the way the code computes them.        *)
(* Decimal and float values are integers and exact rationals [n, d].       *)
(***************************************************************************)
EXTENDS Integers, Sequences, FiniteSets, TLC

\* call: the function called and its arguments; ret: Pending until the call
\* ends, then what it left behind.
VARIABLES call, ret

vars == <<call, ret>>

(***************************************************************************)
(* Python str primitives                                                   *)
(***************************************************************************)
UpperChars == <<"A","B","C","D","E","F","G","H","I","J","K","L","M",
                "N","O","P","Q","R","S","T","U","V","W","X","Y","Z">>

LowerChars == <<"a","b","c","d","e","f","g","h","i","j","k","l","m",
                "n","o","p","q","r","s","t","u","v","w","x","y","z">>

DigitChars == {"0","1","2","3","4","5","6","7","8","9"}

Letters == 1..26

\* None, as a value of a nullable str field: equal to no str value, since
\* every element of a str value is a single character.
None == <<"None">>

UpperSet == {UpperChars[i] : i \in Letters}

LowerSet == {LowerChars[i] : i \in Letters}

\* \w of the re module: letters, digits and the underscore.
WordSet == UpperSet \cup LowerSet \cup DigitChars \cup {"_"}

ToLower == [c \in UpperSet |-> LowerChars[CHOOSE i \in Letters : UpperChars[i] = c]]

ToUpper == [c \in LowerSet |-> UpperChars[CHOOSE i \in Letters : LowerChars[i] = c]]

IsUpper(c) == c \in UpperSet

IsLower(c) == c \in LowerSet

IsDigit(c) == c \in DigitChars

IsSpace(c) == c = " "

IsWord(c) == c \in WordSet

LowerChar(c) == IF IsUpper(c) THEN ToLower[c] ELSE c

UpperChar(c) == IF IsLower(c) THEN ToUpper[c] ELSE c

\* str.lower()
lower(s) == [i \in 1..Len(s) |-> LowerChar(s[i])]

\* str.upper()
upper(s) == [i \in 1..Len(s) |-> UpperChar(s[i])]

\* str.replace(a, b) for one-character a and b
replace(s, a, b) == [i \in 1..Len(s) |-> IF s[i] = a THEN b ELSE s[i]]

\* str.strip()
strip(s) ==
    LET keep == {i \in 1..Len(s) : ~IsSpace(s[i])}
    IN  IF keep = {} THEN <<>>
        ELSE LET lo == CHOOSE i \in keep : \A j \in keep : i <= j
                 hi == CHOOSE i \in keep : \A j \in keep : j <= i
             IN  SubSeq(s, lo, hi)

\* The pieces of s between the positions in cuts (a set of positions of s),
\* in order: the result of splitting s at those positions.
RECURSIVE Pieces(_, _, _)
Pieces(s, cuts, from) ==
    LET next == {i \in cuts : i >= from}
    IN  IF next = {} THEN <<SubSeq(s, from, Len(s))>>
        ELSE LET c == CHOOSE i \in next : \A j \in next : i <= j
             IN  <<SubSeq(s, from, c - 1)>> \o Pieces(s, cuts, c + 1)

\* str.split(sep) for a one-character sep: empty pieces are kept.
split(s, sep) == Pieces(s, {i \in 1..Len(s) : s[i] = sep}, 1)

\* str.split() with no argument: split on runs of whitespace, no empty piece.
split_ws(s) == SelectSeq(Pieces(s, {i \in 1..Len(s) : IsSpace(s[i])}, 1), LAMBDA p : p # <<>>)

\* needle in hay (Python's substring test); the empty str is in every str.
In(needle, hay) ==
    \E i \in 1..(Len(hay) - Len(needle) + 1) : SubSeq(hay, i, i + Len(needle) - 1) = needle

\* bool(s) of a nullable str: None and "" are falsy.
Truthy(s) == s # None /\ s # <<>>

(***************************************************************************)
(* The three postal-code patterns of extract_location_components, as the   *)
(* re module matches them.  A position p of s, 0 <= p <= Len(s), lies      *)
(* between s[p] and s[p+1].                                                *)
(***************************************************************************)
WordAt(s, i) == i >= 1 /\ i <= Len(s) /\ IsWord(s[i])

\* \b at position p
Boundary(s, p) == WordAt(s, p) # WordAt(s, p + 1)

DigitsAt(s, i, n) == i >= 1 /\ i + n - 1 <= Len(s) /\ \A k \in i..(i + n - 1) : IsDigit(s[k])

\* r'\b(\d{5}(?:-\d{4})?)\b' matched at index i: the index of the last
\* character matched, 0 when there is no match at i.  The optional group is
\* greedy, and is given up when the closing \b fails after it.
us_zip_end(s, i) ==
    IF ~(Boundary(s, i - 1) /\ DigitsAt(s, i, 5)) THEN 0
    ELSE IF i + 5 <= Len(s) /\ s[i + 5] = "-" /\ DigitsAt(s, i + 6, 4) /\ Boundary(s, i + 9)
         THEN i + 9
    ELSE IF Boundary(s, i + 4) THEN i + 4
    ELSE 0

\* r'\b(\d{6})\b' matched at index i
indian_pin_end(s, i) ==
    IF Boundary(s, i - 1) /\ DigitsAt(s, i, 6) /\ Boundary(s, i + 5) THEN i + 5 ELSE 0

\* The tail \s*\d[A-Z]{2}\b of the UK pattern from index k of the upper-cased
\* text u.
uk_tail_end(u, k) ==
    LET rest == {m \in k..Len(u) : ~IsSpace(u[m])}
    IN  IF rest = {} THEN 0
        ELSE LET m == CHOOSE x \in rest : \A y \in rest : x <= y
             IN  IF m + 2 <= Len(u) /\ IsDigit(u[m]) /\ IsUpper(u[m + 1])
                    /\ IsUpper(u[m + 2]) /\ Boundary(u, m + 2)
                 THEN m + 2 ELSE 0

\* r'\b([A-Z]{1,2}\d[A-Z\d]?\s*\d[A-Z]{2})\b' matched at index i of the
\* upper-cased text u (the search runs on part.upper(), the substitution on
\* part with re.IGNORECASE: the same positions).  [A-Z\d]? is greedy and is
\* given up when the tail fails after it.
uk_postcode_end(u, i) ==
    IF ~(Boundary(u, i - 1) /\ i <= Len(u) /\ IsUpper(u[i])) THEN 0
    ELSE LET j == IF i + 1 <= Len(u) /\ IsUpper(u[i + 1]) THEN i + 2 ELSE i + 1
         IN  IF ~(j <= Len(u) /\ IsDigit(u[j])) THEN 0
             ELSE LET withOpt == IF j + 1 <= Len(u) /\ (IsUpper(u[j + 1]) \/ IsDigit(u[j + 1]))
                                 THEN uk_tail_end(u, j + 2) ELSE 0
                  IN  IF withOpt # 0 THEN withOpt ELSE uk_tail_end(u, j + 1)

\* The pattern matched at index i of s, where u is s.upper(): the index of
\* the last character matched, 0 when there is no match at i.
pattern_end(pattern, s, u, i) ==
    CASE pattern = "us_zip" -> us_zip_end(s, i)
      [] pattern = "indian_pin" -> indian_pin_end(s, i)
      [] pattern = "uk_postcode" -> uk_postcode_end(u, i)

\* The least element of a set of positions, 0 for the empty set.
first_position(positions) ==
    IF positions = {} THEN 0 ELSE CHOOSE i \in positions : \A j \in positions : i <= j

match_starts(pattern, s, u) == {i \in 1..Len(s) : pattern_end(pattern, s, u, i) # 0}

\* re.search(pattern, s): the start of the leftmost match, 0 when none.
re_search(pattern, s) == first_position(match_starts(pattern, s, upper(s)))

\* re.sub(pattern, '', s): every non-overlapping match removed, left to right.
RECURSIVE re_sub_from(_, _, _, _)
re_sub_from(pattern, s, u, from) ==
    IF from > Len(s) THEN <<>>
    ELSE IF pattern_end(pattern, s, u, from) # 0
         THEN re_sub_from(pattern, s, u, pattern_end(pattern, s, u, from) + 1)
         ELSE <<s[from]>> \o re_sub_from(pattern, s, u, from + 1)

re_sub(pattern, s) == re_sub_from(pattern, s, upper(s), 1)

(***************************************************************************)
(* extract_location_components, free-text path                             *)
(***************************************************************************)
known_countries ==
    {<<"i","n","d","i","a">>,
     <<"u","s","a">>,
     <<"u","n","i","t","e","d"," ","s","t","a","t","e","s">>,
     <<"c","a","n","a","d","a">>,
     <<"u","k">>,
     <<"u","n","i","t","e","d"," ","k","i","n","g","d","o","m">>,
     <<"a","u","s","t","r","a","l","i","a">>,
     <<"g","e","r","m","a","n","y">>,
     <<"f","r","a","n","c","e">>,
     <<"j","a","p","a","n">>,
     <<"c","h","i","n","a">>}

\* The patterns in the order of the if / elif chain.
zip_patterns == <<"us_zip", "indian_pin", "uk_postcode">>

\* The index in zip_patterns of the first pattern found in part, 0 when none.
first_pattern(part) ==
    first_position({k \in 1..Len(zip_patterns) : re_search(zip_patterns[k], part) # 0})

\* match.group(1): from the match's start to its end.  The UK pattern is
\* searched in part.upper(), so its group is upper case.
matched_group(pattern, part, u, start) ==
    SubSeq(IF pattern = "uk_postcode" THEN u ELSE part, start,
           pattern_end(pattern, part, u, start))

\* One iteration of the postal-code loop with the pattern found: the
\* zip_code it sets and what the part becomes.
zip_taken(pattern, part) ==
    [zip |-> matched_group(pattern, part, upper(part), re_search(pattern, part)),
     part |-> strip(re_sub(pattern, part))]

zip_step_with(k, part) ==
    IF k = 0 THEN [zip |-> None, part |-> part] ELSE zip_taken(zip_patterns[k], part)

\* One iteration of the postal-code loop on one part (zip |-> None when the
\* part holds no postal code).
zip_step(part) == zip_step_with(first_pattern(part), part)

\* The zip_code of the first part that holds one, had the loop stopped there.
earlier_zip(steps) ==
    IF \E i \in 1..Len(steps) : steps[i].zip # None
    THEN steps[CHOOSE i \in 1..Len(steps) :
                 /\ steps[i].zip # None
                 /\ \A j \in 1..Len(steps) : steps[j].zip # None => i <= j].zip
    ELSE None

\* parts and zip_code after the loop: every part stepped, and the zip_code of
\* the last part that holds one.
later_zip(steps) ==
    IF \E i \in 1..Len(steps) : steps[i].zip # None
    THEN steps[CHOOSE i \in 1..Len(steps) :
                 /\ steps[i].zip # None
                 /\ \A j \in 1..Len(steps) : steps[j].zip # None => j <= i].zip
    ELSE None

zip_loop(steps) ==
    [parts |-> [i \in 1..Len(steps) |-> steps[i].part], zip_code |-> later_zip(steps)]

\* "Clean up empty values": a field that is not None and is blank becomes None.
clean_component(v) == IF Truthy(v) /\ strip(v) = <<>> THEN None ELSE v

NoComponents == [city |-> None, county |-> None, state |-> None, zip_code |-> None,
                 country |-> None, full_address |-> None]

\* city, state and county from the parts left, and the clean-up.
assign_components(address, country, zip_code, parts) ==
    [city |-> clean_component(IF Len(parts) >= 1 THEN parts[1] ELSE None),
     state |-> clean_component(IF Len(parts) >= 2 THEN parts[2] ELSE None),
     county |-> clean_component(IF Len(parts) >= 3 THEN parts[3] ELSE None),
     zip_code |-> clean_component(zip_code),
     country |-> clean_component(country),
     full_address |-> clean_component(address)]

non_empty(seq) == SelectSeq(seq, LAMBDA p : strip(p) # <<>>)

after_zip_loop(address, country, looped) ==
    assign_components(address, country, looped.zip_code, non_empty(looped.parts))

after_country(address, country, parts) ==
    after_zip_loop(address, country, zip_loop([i \in 1..Len(parts) |-> zip_step(parts[i])]))

is_known_country(part) == \E country \in known_countries : In(country, lower(part))

\* The same, had the country stayed in the list of parts.
components_of_parts_keeping_country(address, parts) ==
    IF parts = <<>> THEN [NoComponents EXCEPT !.full_address = address]
    ELSE IF is_known_country(parts[Len(parts)])
    THEN after_country(address, parts[Len(parts)], parts)
    ELSE after_country(address, None, parts)

\* The country is the last part when that names a known country.
components_of_parts(address, parts) ==
    IF parts = <<>> THEN [NoComponents EXCEPT !.full_address = address]
    ELSE IF is_known_country(parts[Len(parts)])
    THEN after_country(address, parts[Len(parts)], SubSeq(parts, 1, Len(parts) - 1))
    ELSE after_country(address, None, parts)

stripped_parts(pieces) == non_empty([i \in 1..Len(pieces) |-> strip(pieces[i])])

components_of_address(address) ==
    components_of_parts(address, stripped_parts(split(address, ",")))

extract_location_components(address_or_components) ==
    components_of_address(strip(address_or_components))

(***************************************************************************)
(* Exact rationals for Python floats: [n |-> numerator, d |-> denominator] *)
(* in lowest terms, d > 0.  Every float the engine computes here is a      *)
(* quotient or a product of small integers, and the comparisons it makes   *)
(* (>= 0.3, > 45, < 40, < 1, range tests) come out the same on the         *)
(* correctly rounded doubles as on the rationals.                          *)
(***************************************************************************)
RECURSIVE GCD(_, _)
GCD(a, b) == IF b = 0 THEN a ELSE GCD(b, a % b)

Frac(n, d) == LET g == GCD(n, d) IN [n |-> n \div g, d |-> d \div g]

Zero == Frac(0, 1)

One == Frac(1, 1)

RatLe(a, b) == a.n * b.d <= b.n * a.d

RatLt(a, b) == a.n * b.d < b.n * a.d

RatMin(a, b) == IF RatLe(a, b) THEN a ELSE b

RatAdd(a, b) == Frac(a.n * b.d + b.n * a.d, a.d * b.d)

RatTimes(a, k) == Frac(a.n * k, a.d)

(***************************************************************************)
(* calculate_location_match_score                                          *)
(***************************************************************************)
normalize_component(component) ==
    IF ~Truthy(component) THEN None ELSE lower(strip(component))

\* The set of tokens longer than 2 characters of the fallback comparison.
meaningful_parts(normalized) ==
    LET words == split_ws(replace(normalized, ",", " "))
    IN  {strip(words[i]) : i \in {j \in 1..Len(words) : Len(strip(words[j])) > 2}}

\* component_counts counting a component that either side has.
component_counts_either(b, p) == Truthy(b) \/ Truthy(p)

\* component_counts counting every component the buyer's side has.
component_counts_buyer_side(b, p) == Truthy(b)

\* One component of the comparison: whether it counts (both sides have it)
\* and whether it matches.
component_counts(b, p) == Truthy(b) /\ Truthy(p)

component_matches(b, p) == component_counts(b, p) /\ b = p

ComponentKeys == {"city", "state", "county", "zip_code"}

\* The score is returned with the part of debug_details that tells which
\* return statement produced it.
LocationResult(score, reason, matches, total_components) ==
    [score |-> score, reason |-> reason, matches |-> matches,
     total_components |-> total_components]

\* word_overlap_score without the cap of 0.7.
word_overlap_uncapped(buyer_parts, property_parts) ==
    IF buyer_parts # {} /\ property_parts # {} /\ buyer_parts \cap property_parts # {}
    THEN LET overlap_ratio == Frac(Cardinality(buyer_parts \cap property_parts),
                                   Cardinality(buyer_parts \cup property_parts))
         IN  IF RatLe(Frac(3, 10), overlap_ratio)
             THEN LocationResult(overlap_ratio, "partial_word_overlap", 0, 0)
             ELSE LocationResult(Zero, "no_meaningful_match", 0, 0)
    ELSE LocationResult(Zero, "no_meaningful_match", 0, 0)

\* The word-overlap branch of the fallback, on the two sets of tokens.
word_overlap_score(buyer_parts, property_parts) ==
    IF buyer_parts # {} /\ property_parts # {} /\ buyer_parts \cap property_parts # {}
    THEN LET overlap_ratio == Frac(Cardinality(buyer_parts \cap property_parts),
                                   Cardinality(buyer_parts \cup property_parts))
         IN  IF RatLe(Frac(3, 10), overlap_ratio)
             THEN LocationResult(RatMin(Frac(7, 10), overlap_ratio), "partial_word_overlap", 0, 0)
             ELSE LocationResult(Zero, "no_meaningful_match", 0, 0)
    ELSE LocationResult(Zero, "no_meaningful_match", 0, 0)

fallback_normalized(buyer_normalized, property_normalized) ==
    IF buyer_normalized = property_normalized
    THEN LocationResult(One, "exact_string_match", 0, 0)
    ELSE word_overlap_score(meaningful_parts(buyer_normalized),
                            meaningful_parts(property_normalized))

\* "Fallback to more restrictive string matching"
fallback_location_score(buyer_address, property_address) ==
    fallback_normalized(strip(lower(buyer_address)), strip(lower(property_address)))

\* The normalized components of one side.
normalized_components(components) ==
    [k \in ComponentKeys \cup {"country"} |-> normalize_component(components[k])]

\* score_of_counts falling back unless two components were compared.
score_of_counts_needing_two(matches, total_components, buyer_address, property_address) ==
    IF total_components > 1
    THEN LocationResult(Frac(matches, total_components), "calculation",
                        matches, total_components)
    ELSE fallback_location_score(buyer_address, property_address)

\* "Calculate score based on component matches", else the fallback.
score_of_counts(matches, total_components, buyer_address, property_address) ==
    IF total_components > 0
    THEN LocationResult(Frac(matches, total_components), "calculation",
                        matches, total_components)
    ELSE fallback_location_score(buyer_address, property_address)

\* compare_components with two different countries scoring 0.
compare_components_excluding(buyer, property, buyer_address, property_address) ==
    IF Truthy(buyer.country) /\ Truthy(property.country) /\ buyer.country # property.country
    THEN LocationResult(Zero, "country_mismatch", 0, 0)
    ELSE score_of_counts(
             Cardinality({k \in ComponentKeys : component_matches(buyer[k], property[k])}),
             Cardinality({k \in ComponentKeys : component_counts(buyer[k], property[k])}),
             buyer_address, property_address)

\* The country check, then the four component comparisons.
compare_components(buyer, property, buyer_address, property_address) ==
    IF Truthy(buyer.country) /\ Truthy(property.country) /\ buyer.country # property.country
    THEN LocationResult(Frac(1, 10), "country_mismatch", 0, 0)
    ELSE score_of_counts(
             Cardinality({k \in ComponentKeys : component_matches(buyer[k], property[k])}),
             Cardinality({k \in ComponentKeys : component_counts(buyer[k], property[k])}),
             buyer_address, property_address)

calculate_location_match_score(buyer_address, property_address) ==
    IF ~Truthy(buyer_address) \/ ~Truthy(property_address)
    THEN LocationResult(Zero, "missing address", 0, 0)
    ELSE compare_components(
             normalized_components(extract_location_components(buyer_address)),
             normalized_components(extract_location_components(property_address)),
             buyer_address, property_address)

(***************************************************************************)
(* Python values of the loosely typed fields (Decimal columns, JSON        *)
(* columns, the land-type reference), each with its type t.  A float is an *)
(* exact rational n/d.  Address texts and parsed components stay plain str *)
(* values, with None above for a missing one.                              *)
(***************************************************************************)
\* Every value has all the fields, each of one type: n/d a number, s a str,
\* value the second str of a LandType, items the elements of a list.
Py(t, n, d, s, value, items) ==
    [t |-> t, n |-> n, d |-> d, s |-> s, value |-> value, items |-> items]

NoValue == Py("None", 0, 1, <<>>, <<>>, <<>>)

Dec(n) == Py("Decimal", n, 1, <<>>, <<>>, <<>>)

Float(r) == Py("float", r.n, r.d, <<>>, <<>>, <<>>)

Str(s) == Py("str", 0, 1, s, <<>>, <<>>)

List(items) == Py("list", 0, 1, <<>>, <<>>, items)

\* A LandType row (src/accounts/models.py): value and display_name, no name.
LandTypeObj(value, display_name) == Py("LandType", 0, 1, display_name, value, <<>>)

\* not x
Falsy(x) ==
    CASE x.t = "None" -> TRUE
      [] x.t \in {"Decimal", "float"} -> x.n = 0
      [] x.t = "str" -> x.s = <<>>
      [] x.t = "list" -> x.items = <<>>
      [] OTHER -> FALSE

\* The decimal digits of a str as a number.
RECURSIVE DigitsValue(_)
DigitsValue(s) ==
    IF s = <<>> THEN 0
    ELSE 10 * DigitsValue(SubSeq(s, 1, Len(s) - 1))
         + (CHOOSE k \in 0..9 : ToString(k) = s[Len(s)])

\* float(x) succeeds: a Decimal, a float, or a str of decimal digits (blanks
\* around it allowed).  float(None) raises TypeError, float("abc") ValueError.
FloatOk(x) ==
    CASE x.t \in {"Decimal", "float"} -> TRUE
      [] x.t = "str" -> strip(x.s) # <<>> /\ \A i \in 1..Len(strip(x.s)) : IsDigit(strip(x.s)[i])
      [] OTHER -> FALSE

\* float(x), where FloatOk(x)
ToFloat(x) ==
    CASE x.t \in {"Decimal", "float"} -> Frac(x.n, x.d)
      [] x.t = "str" -> Frac(DigitsValue(strip(x.s)), 1)

\* float('inf'): RatLe and RatLt compare it correctly by cross-multiplication.
Infinity == [n |-> 1, d |-> 0]

\* str(x) of a str or of a LandType (its __str__ is display_name)
ToStr(x) == x.s

(***************************************************************************)
(* extract_location_components on any value: the Places API path for a     *)
(* list, the free-text path for a str, the empty structure for the rest.   *)
(* A component record is a dict: s its "long_name" ('' when the key is     *)
(* missing, None when it holds None), items its "types" as str values.     *)
(***************************************************************************)
Component(types, long_name) == Py("dict", 0, 1, long_name, <<>>, types)

\* sep.join(strs)
RECURSIVE join(_, _)
join(sep, strs) ==
    IF strs = <<>> THEN <<>>
    ELSE IF Len(strs) = 1 THEN strs[1]
    ELSE strs[1] \o sep \o join(sep, Tail(strs))

\* The if / elif chain, had administrative_area_level_3 set county whether or
\* not county is already set.
component_step_overriding(components, comp) ==
    LET long_name == strip(comp.s)
        tagged(type) == \E i \in 1..Len(comp.items) : comp.items[i] = Str(type)
    IN  IF \/ tagged(<<"l","o","c","a","l","i","t","y">>)
           \/ tagged(<<"s","u","b","l","o","c","a","l","i","t","y">>)
        THEN [components EXCEPT !.city = long_name]
        ELSE IF tagged(<<"a","d","m","i","n","i","s","t","r","a","t","i","v","e","_",
                         "a","r","e","a","_","l","e","v","e","l","_","2">>)
        THEN [components EXCEPT !.county = long_name]
        ELSE IF tagged(<<"a","d","m","i","n","i","s","t","r","a","t","i","v","e","_",
                         "a","r","e","a","_","l","e","v","e","l","_","3">>)
        THEN [components EXCEPT !.county = long_name]
        ELSE IF tagged(<<"a","d","m","i","n","i","s","t","r","a","t","i","v","e","_",
                         "a","r","e","a","_","l","e","v","e","l","_","1">>)
        THEN [components EXCEPT !.state = long_name]
        ELSE IF tagged(<<"c","o","u","n","t","r","y">>)
        THEN [components EXCEPT !.country = long_name]
        ELSE IF tagged(<<"p","o","s","t","a","l","_","c","o","d","e">>)
        THEN [components EXCEPT !.zip_code = long_name]
        ELSE components

\* One iteration of the loop over the components: the if / elif chain.
component_step(components, comp) ==
    LET long_name == strip(comp.s)
        tagged(type) == \E i \in 1..Len(comp.items) : comp.items[i] = Str(type)
    IN  IF \/ tagged(<<"l","o","c","a","l","i","t","y">>)
           \/ tagged(<<"s","u","b","l","o","c","a","l","i","t","y">>)
        THEN [components EXCEPT !.city = long_name]
        ELSE IF tagged(<<"a","d","m","i","n","i","s","t","r","a","t","i","v","e","_",
                         "a","r","e","a","_","l","e","v","e","l","_","2">>)
        THEN [components EXCEPT !.county = long_name]
        ELSE IF /\ tagged(<<"a","d","m","i","n","i","s","t","r","a","t","i","v","e","_",
                            "a","r","e","a","_","l","e","v","e","l","_","3">>)
                /\ ~Truthy(components.county)
        THEN [components EXCEPT !.county = long_name]
        ELSE IF tagged(<<"a","d","m","i","n","i","s","t","r","a","t","i","v","e","_",
                         "a","r","e","a","_","l","e","v","e","l","_","1">>)
        THEN [components EXCEPT !.state = long_name]
        ELSE IF tagged(<<"c","o","u","n","t","r","y">>)
        THEN [components EXCEPT !.country = long_name]
        ELSE IF tagged(<<"p","o","s","t","a","l","_","c","o","d","e">>)
        THEN [components EXCEPT !.zip_code = long_name]
        ELSE components

\* The loop over the components, in the order of the list.
RECURSIVE component_loop(_, _)
component_loop(components, comps) ==
    IF comps = <<>> THEN components
    ELSE component_loop(component_step(components, Head(comps)), Tail(comps))

\* The list path.  comp.get raises AttributeError on an element that is not
\* a dict, and .strip() on a long_name that is None.  full_address joins the
\* long names that are not empty, as they are given.
components_of_list(comps) ==
    IF \E i \in 1..Len(comps) : comps[i].t # "dict" \/ comps[i].s = None
    THEN [status |-> "raised"]
    ELSE LET named == SelectSeq(comps, LAMBDA comp : comp.s # <<>>)
             long_names == [i \in 1..Len(named) |-> named[i].s]
         IN  [status |-> "returned",
              value |-> [component_loop(NoComponents, comps) EXCEPT
                            !.full_address = strip(join(<<",", " ">>, long_names))]]

\* The dispatch on the type of the argument.
extract_location_components_of(address_or_components) ==
    IF address_or_components.t = "list"
    THEN components_of_list(address_or_components.items)
    ELSE IF address_or_components.t = "str"
    THEN [status |-> "returned",
          value |-> extract_location_components(address_or_components.s)]
    ELSE [status |-> "returned", value |-> NoComponents]

(***************************************************************************)
(* Attribute match functions                                               *)
(***************************************************************************)
\* A JSON column that holds a bare value instead of a list is wrapped.
as_list(x) == IF x.t = "list" THEN x.items ELSE <<x>>

land_type_normalized(s) == replace(lower(s), " ", "_")

calculate_land_type_match_score(buyer_land_property_types, property_land_type) ==
    IF Falsy(buyer_land_property_types) \/ Falsy(property_land_type) THEN Zero
    ELSE LET buyer_types == as_list(buyer_land_property_types)
             \* a LandType has no 'name': display_name is taken
             property_type_value == ToStr(property_land_type)
             property_type_normalized == land_type_normalized(property_type_value)
         IN  IF \E i \in 1..Len(buyer_types) :
                    land_type_normalized(ToStr(buyer_types[i])) = property_type_normalized
             THEN One ELSE Zero

\* The same, had only "property's strategy in buyer's strategy" been tested.
calculate_exit_strategy_match_score_one_way(buyer_strategies, property_strategy) ==
    IF Falsy(buyer_strategies) \/ Falsy(property_strategy) THEN Zero
    ELSE LET strategies == as_list(buyer_strategies)
             normalized_buyer == [i \in 1..Len(strategies) |-> lower(strip(ToStr(strategies[i])))]
             normalized_property == lower(strip(ToStr(property_strategy)))
         IN  IF \E i \in 1..Len(normalized_buyer) :
                    In(normalized_property, normalized_buyer[i])
             THEN One ELSE Zero

calculate_exit_strategy_match_score(buyer_strategies, property_strategy) ==
    IF Falsy(buyer_strategies) \/ Falsy(property_strategy) THEN Zero
    ELSE LET strategies == as_list(buyer_strategies)
             normalized_buyer == [i \in 1..Len(strategies) |-> lower(strip(ToStr(strategies[i])))]
             normalized_property == lower(strip(ToStr(property_strategy)))
         IN  IF \E i \in 1..Len(normalized_buyer) :
                    \/ In(normalized_property, normalized_buyer[i])
                    \/ In(normalized_buyer[i], normalized_property)
             THEN One ELSE Zero

S_sqft == <<"s","q","f","t">>

SqftPerAcre == 43560

\* The unit is a str or None; 'acres', any other unit and no unit all leave
\* the size as it is.  The int 0 of the early returns is the float 0.0 here.
normalize_lot_size_to_acres(lot_size, unit) ==
    IF Falsy(lot_size) THEN Float(Zero)
    ELSE IF ~FloatOk(lot_size) THEN Float(Zero)
    ELSE IF Truthy(unit) /\ lower(unit) = S_sqft
         THEN Float(Frac(ToFloat(lot_size).n, ToFloat(lot_size).d * SqftPerAcre))
         ELSE Float(ToFloat(lot_size))

calculate_lot_size_match_score(buyer_min_size, buyer_max_size, property_size, property_unit) ==
    IF Falsy(property_size) THEN Zero
    ELSE LET property_size_acres == ToFloat(normalize_lot_size_to_acres(property_size, property_unit))
             min_size == IF ~Falsy(buyer_min_size) THEN ToFloat(buyer_min_size) ELSE Zero
             max_size == IF ~Falsy(buyer_max_size) THEN ToFloat(buyer_max_size) ELSE Infinity
         IN  IF property_size_acres = Zero THEN Zero
             ELSE IF RatLe(min_size, property_size_acres) /\ RatLe(property_size_acres, max_size)
             THEN One ELSE Zero

\* calculate_price_match_score with a maximum of 0 taken as a bound.
calculate_price_match_score_bounded_by_zero(buyer_min_price, buyer_max_price, property_price) ==
    IF Falsy(property_price) THEN Zero
    ELSE IF ~FloatOk(property_price) THEN Zero
    ELSE LET price == ToFloat(property_price)
             min_price == IF ~Falsy(buyer_min_price) THEN ToFloat(buyer_min_price) ELSE Zero
             max_price == IF buyer_max_price.t # "None" THEN ToFloat(buyer_max_price)
                          ELSE Infinity
         IN  IF RatLe(min_price, price) /\ RatLe(price, max_price) THEN One ELSE Zero

\* calculate_price_match_score with the maximum itself out of range.
calculate_price_match_score_exclusive(buyer_min_price, buyer_max_price, property_price) ==
    IF Falsy(property_price) THEN Zero
    ELSE IF ~FloatOk(property_price) THEN Zero
    ELSE LET price == ToFloat(property_price)
             min_price == IF ~Falsy(buyer_min_price) THEN ToFloat(buyer_min_price) ELSE Zero
             max_price == IF ~Falsy(buyer_max_price) THEN ToFloat(buyer_max_price) ELSE Infinity
         IN  IF RatLe(min_price, price) /\ RatLt(price, max_price) THEN One ELSE Zero

calculate_price_match_score(buyer_min_price, buyer_max_price, property_price) ==
    IF Falsy(property_price) THEN Zero
    ELSE IF ~FloatOk(property_price) THEN Zero
    ELSE LET price == ToFloat(property_price)
             min_price == IF ~Falsy(buyer_min_price) THEN ToFloat(buyer_min_price) ELSE Zero
             max_price == IF ~Falsy(buyer_max_price) THEN ToFloat(buyer_max_price) ELSE Infinity
         IN  IF RatLe(min_price, price) /\ RatLe(price, max_price) THEN One ELSE Zero

(***************************************************************************)
(* match_property_to_single_buyer                                          *)
(***************************************************************************)
S_houses == <<"h","o","u","s","e","s">>
S_land == <<"l","a","n","d">>
S_both == <<"b","o","t","h">>
S_acres == <<"a","c","r","e","s">>

Pow10(k) == IF k = 0 THEN 1 ELSE IF k = 1 THEN 10 ELSE 100

\* round(x, places) for places in 0..2: to the nearest multiple of
\* 10^-places, a tie to the even one.
round(x, places) ==
    LET scaled == x.n * Pow10(places)
        q == scaled \div x.d
        rem == scaled - q * x.d
        up == \/ 2 * rem > x.d
              \/ (2 * rem = x.d /\ q % 2 = 1)
    IN  Frac(IF up THEN q + 1 ELSE q, Pow10(places))

\* fit_category with 45 itself taken as a good fit.
fit_category_inclusive(total_score) ==
    IF RatLe(Frac(45, 1), total_score) THEN "Good Fit"
    ELSE IF RatLt(total_score, Frac(40, 1)) THEN "Poor Fit"
    ELSE "Marginal Fit"

\* "Determine fit category according to documentation"
fit_category(total_score) ==
    IF RatLt(Frac(45, 1), total_score) THEN "Good Fit"
    ELSE IF RatLt(total_score, Frac(40, 1)) THEN "Poor Fit"
    ELSE "Marginal Fit"

ComponentNames == {"location", "land_type", "exit_strategy", "lot_size", "price"}

\* component_weight with the hundred points spread evenly.
component_weight_even(name) == 20

\* The weight applied to each component score.
component_weight(name) ==
    CASE name = "location" -> 40
      [] name = "land_type" -> 30
      [] name = "exit_strategy" -> 20
      [] name = "lot_size" -> 5
      [] name = "price" -> 5

\* buyer_is_skipped without its blacklist test.
buyer_is_skipped_unless_blacklisted(buyer_filter) ==
    \/ ~buyer_filter.is_active_buyer
    \/ buyer_filter.asset_type = S_houses

\* The early-return conditions: inactive or blacklisted, or a houses-only buyer.
buyer_is_skipped(buyer_filter) ==
    \/ ~buyer_filter.is_active_buyer
    \/ buyer_filter.is_blacklisted
    \/ buyer_filter.asset_type = S_houses

\* lot_size_component handing the scorer the property's own unit, so that a
\* size in square feet is divided twice.
lot_size_component_converting_twice(lot_size, lot_size_unit, lot_size_min, lot_size_max) ==
    calculate_lot_size_match_score(lot_size_min, lot_size_max,
                                   normalize_lot_size_to_acres(lot_size, lot_size_unit),
                                   lot_size_unit)

\* "4. LOT SIZE MATCH": the size is normalised to acres, then scored as acres.
lot_size_component(lot_size, lot_size_unit, lot_size_min, lot_size_max) ==
    calculate_lot_size_match_score(lot_size_min, lot_size_max,
                                   normalize_lot_size_to_acres(lot_size, lot_size_unit),
                                   S_acres)

\* component_scores as the five scorer calls fill it in.
score_components(property_instance, buyer_filter) ==
    [location |-> calculate_location_match_score(buyer_filter.address,
                                                 property_instance.address).score,
     land_type |-> calculate_land_type_match_score(buyer_filter.land_property_types,
                                                   property_instance.land_type),
     exit_strategy |-> calculate_exit_strategy_match_score(buyer_filter.exit_strategy,
                                                           property_instance.exit_strategy),
     lot_size |-> lot_size_component(property_instance.lot_size,
                                     property_instance.lot_size_unit,
                                     buyer_filter.lot_size_min, buyer_filter.lot_size_max),
     price |-> calculate_price_match_score(buyer_filter.price_min, buyer_filter.price_max,
                                           property_instance.agreed_price)]

\* component_contributions before rounding: score times weight.
weigh_components(component_scores) ==
    [name \in ComponentNames |-> RatTimes(component_scores[name], component_weight(name))]

\* sum_contributions leaving the price contribution out.
sum_without_price(c) ==
    RatAdd(RatAdd(RatAdd(c.location, c.land_type), c.exit_strategy), c.lot_size)

\* total_score: the contributions added up in the order of the code.
sum_contributions(c) ==
    RatAdd(RatAdd(RatAdd(RatAdd(c.location, c.land_type), c.exit_strategy), c.lot_size), c.price)

\* f"{x:,}" is defined for numbers only: None raises TypeError, a str ValueError.
format_thousands_raises(x) == x.t \in {"None", "str"}

\* What a call leaves behind: whether it returned or raised, the value
\* returned (is_none for None), and the local variables scored, component_scores,
\* weighted_contribution and total_score at that point.
Outcome(status, value, scored, component_scores, weighted_contribution, total_score) ==
    [status |-> status, value |-> value, scored |-> scored,
     component_scores |-> component_scores,
     weighted_contribution |-> weighted_contribution, total_score |-> total_score]

NoneValue == [is_none |-> TRUE]

NoScores == [name \in ComponentNames |-> Zero]

\* The result, had match_score been rounded to a whole number.
match_result_rounding_to_units(component_scores, component_contributions, total_score) ==
    [is_none |-> FALSE,
     match_score |-> round(total_score, 0),
     likelihood |-> fit_category(total_score),
     component_scores |->
         [name \in ComponentNames |-> round(RatTimes(component_scores[name], 100), 1)],
     component_contributions |->
         [name \in ComponentNames |-> round(component_contributions[name], 1)],
     weighted_contribution |-> component_contributions]

\* The dict returned for a match.
match_result(component_scores, component_contributions, total_score) ==
    [is_none |-> FALSE,
     match_score |-> round(total_score, 2),
     likelihood |-> fit_category(total_score),
     component_scores |->
         [name \in ComponentNames |-> round(RatTimes(component_scores[name], 100), 1)],
     component_contributions |->
         [name \in ComponentNames |-> round(component_contributions[name], 1)],
     weighted_contribution |-> component_contributions]

\* "Only return matches with score >= 1%"
below_floor(total_score) == RatLt(total_score, One)

\* The end of the evaluator, from the fit category on: None below the floor,
\* the result otherwise.
classify_and_return(component_scores, component_contributions, total_score) ==
    IF below_floor(total_score) THEN NoneValue
    ELSE match_result(component_scores, component_contributions, total_score)

\* The price line of match_details, then the category, the floor and the result.
conclude(property_instance, component_scores, component_contributions, total_score) ==
    IF format_thousands_raises(property_instance.agreed_price)
    THEN Outcome("raised", NoneValue, TRUE, component_scores, component_contributions,
                 total_score)
    ELSE Outcome("returned",
                 classify_and_return(component_scores, component_contributions, total_score),
                 TRUE, component_scores, component_contributions, total_score)

\* The five contributions and their running total.
weigh_and_conclude(property_instance, component_scores, component_contributions) ==
    conclude(property_instance, component_scores, component_contributions,
             sum_contributions(component_contributions))

score_and_conclude(property_instance, component_scores) ==
    weigh_and_conclude(property_instance, component_scores,
                       weigh_components(component_scores))

match_property_to_single_buyer(property_instance, buyer_filter) ==
    IF buyer_is_skipped(buyer_filter)
    THEN Outcome("returned", NoneValue, FALSE, NoScores, NoScores, Zero)
    ELSE score_and_conclude(property_instance,
                            score_components(property_instance, buyer_filter))

(***************************************************************************)
(* The records the evaluator is called with                                *)
(***************************************************************************)
A_Tampa_FL == <<"T","a","m","p","a",","," ","F","L">>
A_Main_St == <<"1","2","3"," ","M","a","i","n"," ","S","t",","," ","T","a","m","p","a",","," ","F","L"," ","3","3","6","0","2">>
A_empty == <<>>

S_residential_vacant == <<"r","e","s","i","d","e","n","t","i","a","l","_","v","a","c","a","n","t">>
S_agricultural == <<"a","g","r","i","c","u","l","t","u","r","a","l">>
S_flip == <<"f","l","i","p">>
S_abc == <<"a","b","c">>

\* BuyBoxFilter.address: 'Tampa, FL', 'Tampa, FL 33602', 'Tampa Bay area USA',
\* and the '' that get_or_create leaves.
BuyerAddresses ==
    {A_Tampa_FL,
     <<"T","a","m","p","a",","," ","F","L"," ","3","3","6","0","2">>,
     <<"T","a","m","p","a"," ","B","a","y"," ","a","r","e","a"," ","U","S","A">>,
     A_empty}

\* PropertySubmission.address: a street address, 'Tampa, FL', 'Tampa Bay area'
\* and 'Miami, FL, India'.
PropertyAddresses ==
    {A_Main_St,
     A_Tampa_FL,
     <<"T","a","m","p","a"," ","B","a","y"," ","a","r","e","a">>,
     <<"M","i","a","m","i",","," ","F","L",","," ","I","n","d","i","a">>}

\* The land type is 'residential_vacant' ('Residential Vacant').  Lot sizes:
\* 2 acres, 2.5 acres given in square feet, 10 acres.  The agreed price in
\* dollars: inside and above the buyers' range, missing, and not a number.
Properties ==
    {[address |-> a,
      land_type |-> LandTypeObj(S_residential_vacant,
                                <<"R","e","s","i","d","e","n","t","i","a","l"," ","V","a","c","a","n","t">>),
      exit_strategy |-> Str(S_flip),
      lot_size |-> l.lot_size, lot_size_unit |-> l.lot_size_unit,
      agreed_price |-> p] :
        a \in PropertyAddresses,
        l \in {[lot_size |-> Dec(2), lot_size_unit |-> S_acres],
               [lot_size |-> Dec(108900), lot_size_unit |-> S_sqft],
               [lot_size |-> Dec(10), lot_size_unit |-> S_acres]},
        p \in {Dec(40000), Dec(60000), NoValue, Str(S_abc)}}

\* asset_type: ASSET_TYPE_CHOICES, and the blank a new BuyBoxFilter row holds.
BuyerFilters ==
    {[is_active_buyer |-> act, is_blacklisted |-> blk, asset_type |-> at,
      address |-> a, land_property_types |-> lt, exit_strategy |-> es,
      lot_size_min |-> Dec(1), lot_size_max |-> Dec(5),
      price_min |-> Dec(30000), price_max |-> Dec(50000)] :
        act \in BOOLEAN, blk \in BOOLEAN,
        at \in {S_land, S_houses, S_both, <<>>}, a \in BuyerAddresses,
        lt \in {List(<<>>), List(<<Str(S_agricultural), Str(S_residential_vacant)>>)},
        es \in {List(<<>>), List(<<Str(S_flip)>>)}}

\* The address texts the location scorer is called with on its own: the
\* addresses above, None, and in this order 'Miami, FL', 'Miami, GA 33602',
\* 'Tampa, FL, USA', 'Delhi, India', 'Tampa, FL, Polk, 33602',
\* 'Miami, FL, Polk, 33611', two blanks, ' , ,', 'USA', 'usa ' (which differs
\* from 'USA' by case and a trailing blank) and 'Tampa USA'.
LocationTexts ==
    BuyerAddresses \cup PropertyAddresses \cup
    {None,
     <<"M","i","a","m","i",","," ","F","L">>,
     <<"M","i","a","m","i",","," ","G","A"," ","3","3","6","0","2">>,
     <<"T","a","m","p","a",","," ","F","L",","," ","U","S","A">>,
     <<"D","e","l","h","i",","," ","I","n","d","i","a">>,
     <<"T","a","m","p","a",","," ","F","L",","," ","P","o","l","k",","," ","3","3","6","0","2">>,
     <<"M","i","a","m","i",","," ","F","L",","," ","P","o","l","k",","," ","3","3","6","1","1">>,
     <<" "," ">>,
     <<" ",","," ",",">>,
     <<"U","S","A">>,
     <<"u","s","a"," ">>,
     <<"T","a","m","p","a"," ","U","S","A">>}

\* Lot sizes up to MaxAcres acres: whole acres, and half acres in square feet.
MaxAcres == 3

PropertyLots ==
    {[lot_size |-> NoValue, lot_size_unit |-> S_acres]} \cup
    {[lot_size |-> Dec(k), lot_size_unit |-> S_acres] : k \in 0..MaxAcres} \cup
    {[lot_size |-> Dec(k * (SqftPerAcre \div 2)), lot_size_unit |-> S_sqft] :
        k \in 0..(2 * MaxAcres)}

LotBounds == {NoValue} \cup {Dec(k) : k \in 0..MaxAcres}

\* Prices in steps of 10,000 dollars, up to MaxPriceSteps steps.
MaxPriceSteps == 6

PropertyPrices == {NoValue, Str(S_abc)} \cup {Dec(k * 10000) : k \in 0..MaxPriceSteps}

PriceBounds == {NoValue} \cup {Dec(k * 10000) : k \in 0..MaxPriceSteps}

\* Total scores in hundredths, from 0 to MaxHundredths / 100.
MaxHundredths == 10000

(***************************************************************************)
(* match_property_to_buyers: the scan of one property over the table of    *)
(* BuyBoxFilter rows.  A row's id is its place in the table, the order in  *)
(* which the query yields the rows.                                        *)
(***************************************************************************)
\* .filter(is_active_buyer=True, is_blacklisted=False,
\*         asset_type__in=['land', 'both'])
buyer_filters(table) ==
    SelectSeq([i \in 1..Len(table) |-> [id |-> i, buyer_filter |-> table[i]]],
              LAMBDA row : /\ row.buyer_filter.is_active_buyer
                           /\ ~row.buyer_filter.is_blacklisted
                           /\ row.buyer_filter.asset_type \in {S_land, S_both})

\* matches.sort(key=match_score, reverse=True) entry by entry, ties placed first.
insert_match_before_ties(sorted, m) ==
    LET ahead == Cardinality({i \in 1..Len(sorted) : RatLt(m.match_score, sorted[i].match_score)})
    IN  SubSeq(sorted, 1, ahead) \o <<m>> \o SubSeq(sorted, ahead + 1, Len(sorted))

\* matches.sort(key=match_score, reverse=True) entry by entry: the sort is
\* stable, so an entry goes behind every entry whose score is no less.
insert_match(sorted, m) ==
    LET ahead == Cardinality({i \in 1..Len(sorted) : RatLe(m.match_score, sorted[i].match_score)})
    IN  SubSeq(sorted, 1, ahead) \o <<m>> \o SubSeq(sorted, ahead + 1, Len(sorted))

RECURSIVE sort_matches(_)
sort_matches(matches) ==
    IF matches = <<>> THEN <<>>
    ELSE insert_match(sort_matches(SubSeq(matches, 1, Len(matches) - 1)),
                      matches[Len(matches)])

\* categorized with a marginal bucket that starts above 40.
categorized_above_40(matches, total_buyers_evaluated) ==
    LET good_fit_buyers == SelectSeq(matches, LAMBDA m : RatLt(Frac(45, 1), m.match_score))
        marginal_fit_buyers ==
            SelectSeq(matches, LAMBDA m : /\ RatLt(Frac(40, 1), m.match_score)
                                          /\ RatLe(m.match_score, Frac(45, 1)))
        poor_fit_buyers == SelectSeq(matches, LAMBDA m : RatLt(m.match_score, Frac(40, 1)))
    IN  [all_matches |-> matches,
         good_fit_buyers |-> good_fit_buyers,
         marginal_fit_buyers |-> marginal_fit_buyers,
         poor_fit_buyers |-> poor_fit_buyers,
         summary |-> [total_buyers_evaluated |-> total_buyers_evaluated,
                      total_matches |-> Len(matches),
                      good_fit_count |-> Len(good_fit_buyers),
                      marginal_fit_count |-> Len(marginal_fit_buyers),
                      poor_fit_count |-> Len(poor_fit_buyers)]]

\* The three buckets and the summary, from the sorted matches.
categorized(matches, total_buyers_evaluated) ==
    LET good_fit_buyers == SelectSeq(matches, LAMBDA m : RatLt(Frac(45, 1), m.match_score))
        marginal_fit_buyers ==
            SelectSeq(matches, LAMBDA m : /\ RatLe(Frac(40, 1), m.match_score)
                                          /\ RatLe(m.match_score, Frac(45, 1)))
        poor_fit_buyers == SelectSeq(matches, LAMBDA m : RatLt(m.match_score, Frac(40, 1)))
    IN  [all_matches |-> matches,
         good_fit_buyers |-> good_fit_buyers,
         marginal_fit_buyers |-> marginal_fit_buyers,
         poor_fit_buyers |-> poor_fit_buyers,
         summary |-> [total_buyers_evaluated |-> total_buyers_evaluated,
                      total_matches |-> Len(matches),
                      good_fit_count |-> Len(good_fit_buyers),
                      marginal_fit_count |-> Len(marginal_fit_buyers),
                      poor_fit_count |-> Len(poor_fit_buyers)]]

\* The entries appended for the evaluations that gave a result.
appended_matches(rows, outcomes) ==
    LET kept == SelectSeq([i \in 1..Len(rows) |-> i], LAMBDA i : ~outcomes[i].value.is_none)
    IN  [k \in 1..Len(kept) |->
            [buyer |-> rows[kept[k]].id,
             match_score |-> outcomes[kept[k]].value.match_score,
             likelihood |-> outcomes[kept[k]].value.likelihood]]

\* The loop over the rows: an exception of the evaluator leaves the loop and
\* the function; otherwise the matches are sorted and categorized.
scan_rows(rows, outcomes) ==
    IF \E i \in 1..Len(rows) : outcomes[i].status = "raised"
    THEN [status |-> "raised"]
    ELSE [status |-> "returned",
          value |-> categorized(sort_matches(appended_matches(rows, outcomes)), Len(rows))]

evaluate_rows(property_instance, rows) ==
    scan_rows(rows, [i \in 1..Len(rows) |->
                        match_property_to_single_buyer(property_instance,
                                                       rows[i].buyer_filter)])

match_property_to_buyers(property_instance, table) ==
    evaluate_rows(property_instance, buyer_filters(table))

\* The rows of the tables scanned: a buyer whose criteria all match the first
\* property below, and that buyer with one or two fields changed.
BaseBuyer ==
    [is_active_buyer |-> TRUE, is_blacklisted |-> FALSE, asset_type |-> S_land,
     address |-> A_Tampa_FL,
     land_property_types |-> List(<<Str(S_agricultural), Str(S_residential_vacant)>>),
     exit_strategy |-> List(<<Str(S_flip)>>),
     lot_size_min |-> Dec(1), lot_size_max |-> Dec(5),
     price_min |-> Dec(30000), price_max |-> Dec(50000)]

PoolBuyers ==
    {BaseBuyer,
     [BaseBuyer EXCEPT !.asset_type = S_both],
     [BaseBuyer EXCEPT !.asset_type = <<>>],
     [BaseBuyer EXCEPT !.asset_type = S_houses],
     [BaseBuyer EXCEPT !.is_blacklisted = TRUE],
     [BaseBuyer EXCEPT !.address = A_empty],
     [BaseBuyer EXCEPT !.address = A_empty, !.exit_strategy = List(<<>>)],
     [BaseBuyer EXCEPT !.address = A_empty, !.land_property_types = List(<<>>),
                       !.exit_strategy = List(<<>>), !.price_max = Dec(30000)]}

\* Tables of up to MaxBuyers rows.
MaxBuyers == 3

BuyerTables == UNION {[1..n -> PoolBuyers] : n \in 0..MaxBuyers}

\* The property scanned: 'Tampa, FL', 2 acres, and each agreed price.
PoolProperties ==
    {p \in Properties : p.address = A_Tampa_FL /\ p.lot_size = Dec(2)}

(***************************************************************************)
(* BuyBoxFilterUpsertView.get_matching_results: the scan of one buyer's    *)
(* criteria over the table of PropertySubmission rows.  A row is a status  *)
(* and the fields the evaluator reads; its id is its place in the table.   *)
(***************************************************************************)
\* The attributes of a BuyBoxFilter row: the fields of the model, with the
\* land_type field commented out.
BuyBoxFilterFields ==
    {"id", "buyer", "asset_type", "is_active_buyer", "is_blacklisted", "address",
     "house_strategies", "land_strategies", "house_property_types", "land_property_types",
     "price_min", "price_max", "lot_size_min", "lot_size_max", "bedroom_min", "bathroom_min",
     "sqft_min", "sqft_max", "year_built_min", "year_built_max", "access_type",
     "preferred_utility", "zoning", "restricted_rehabs", "specialty_rehab_avoidance",
     "strict_requirements", "location_characteristics", "property_characteristics",
     "exit_strategy", "notes", "created_at", "updated_at"}

\* "Limit to top 20 matches for performance"
MatchLimit == 20

\* The entries appended for the properties that gave a result.
property_matches(rows, outcomes) ==
    LET kept == SelectSeq([i \in 1..Len(rows) |-> i], LAMBDA i : ~outcomes[i].value.is_none)
    IN  [k \in 1..Len(kept) |->
            [property_id |-> rows[kept[k]].id,
             match_score |-> outcomes[kept[k]].value.match_score,
             likelihood |-> outcomes[kept[k]].value.likelihood]]

\* The dict returned at the end of the try block, from the sorted matches.
results_of_matches(matches, total_properties_available) ==
    [total_properties_available |-> total_properties_available,
     total_matches |-> Len(matches),
     matches |-> SubSeq(matches, 1, IF Len(matches) < MatchLimit THEN Len(matches)
                                    ELSE MatchLimit),
     match_summary |->
         [good_fit |-> Len(SelectSeq(matches, LAMBDA m : m.likelihood = "Good Fit")),
          marginal_fit |-> Len(SelectSeq(matches, LAMBDA m : m.likelihood = "Marginal Fit")),
          poor_fit |-> Len(SelectSeq(matches, LAMBDA m : m.likelihood = "Poor Fit"))]]

\* The try block: an exception of the evaluator leaves it, and so does the
\* AttributeError of reading, for matching_criteria_active, an attribute that
\* a BuyBoxFilter does not have.
try_matching_results(rows, outcomes) ==
    IF \E i \in 1..Len(rows) : outcomes[i].status = "raised"
    THEN [status |-> "raised"]
    ELSE IF ~({"asset_type", "is_active_buyer", "is_blacklisted", "address", "price_min",
               "price_max", "lot_size_min", "lot_size_max", "land_type", "access_type",
               "land_strategies"} \subseteq BuyBoxFilterFields)
    THEN [status |-> "raised"]
    ELSE [status |-> "returned",
          value |-> results_of_matches(sort_matches(property_matches(rows, outcomes)),
                                       Len(rows))]

\* "except Exception": the dict with the error and no matches.
caught(tried) ==
    IF tried.status = "raised"
    THEN [error |-> TRUE, total_matches |-> 0, matches |-> <<>>,
          match_summary |-> [good_fit |-> 0, marginal_fit |-> 0, poor_fit |-> 0]]
    ELSE tried.value @@ ("error" :> FALSE)

\* .filter(status='submitted')
active_properties(table) ==
    SelectSeq([i \in 1..Len(table) |-> [id |-> i, property |-> table[i].property,
                                        status |-> table[i].status]],
              LAMBDA row : row.status = "submitted")

evaluate_properties(buybox_filter, rows) ==
    caught(try_matching_results(rows,
               [i \in 1..Len(rows) |->
                   match_property_to_single_buyer(rows[i].property, buybox_filter)]))

get_matching_results(buybox_filter, table) ==
    evaluate_properties(buybox_filter, active_properties(table))

\* Tables of up to MaxProperties rows, submitted or sold, with a price as the
\* serializer stores it.
MaxProperties == 2

PropertyTables ==
    UNION {[1..n -> [status : {"submitted", "sold"},
                     property : {p \in Properties : /\ p.agreed_price.t = "Decimal"
                                                    /\ p.lot_size = Dec(2)
                                                    /\ p.address \in {A_Tampa_FL, A_Main_St}}]] :
              n \in 0..MaxProperties}

(***************************************************************************)
(* Spec: one call of one function of the engine.  The evaluator is called  *)
(* with whole records; the location scorer, the two range scorers and the  *)
(* classification at the end of the evaluator are also called on their own *)
(* with inputs the records above do not span.                              *)
(***************************************************************************)
Pending == [status |-> "pending"]

Returned(value) == [status |-> "returned", value |-> value]

EvaluatorCalls ==
    [fn : {"match_property_to_single_buyer"}, property : Properties, buyer : BuyerFilters]

LocationCalls ==
    [fn : {"calculate_location_match_score"},
     buyer_address : LocationTexts, property_address : LocationTexts]

LotSizeCalls ==
    [fn : {"lot_size_component"}, lot : PropertyLots,
     lot_size_min : LotBounds, lot_size_max : LotBounds]

PriceCalls ==
    [fn : {"calculate_price_match_score"}, agreed_price : PropertyPrices,
     price_min : PriceBounds, price_max : PriceBounds]

ClassifyCalls ==
    [fn : {"classify_and_return"}, total_score : {Frac(h, 100) : h \in 0..MaxHundredths}]

PoolCalls ==
    [fn : {"match_property_to_buyers"}, property : PoolProperties, table : BuyerTables]

BuyBoxCalls ==
    [fn : {"get_matching_results"}, buybox_filter : PoolBuyers, table : PropertyTables]

\* The land-type scorer on its own.  The buyer's column: None, [], a list of
\* one or two entries ('residential_vacant', 'Residential Vacant',
\* ' residential_vacant ' with blanks around it, 'agricultural' and
\* 'RESIDENTIAL vacant'), and a bare str.  The property's land type: None, a
\* LandType row (display_name 'Residential Vacant', the same with a trailing
\* blank, 'Vacant Lot'), and a str ('residential_vacant',
\* ' Residential_Vacant', '').
LandTypeCalls ==
    [fn : {"calculate_land_type_match_score"},
     buyer_land_property_types :
        {NoValue, List(<<>>), Str(S_residential_vacant),
         List(<<Str(S_residential_vacant)>>),
         List(<<Str(<<"R","e","s","i","d","e","n","t","i","a","l"," ","V","a","c","a","n","t">>)>>),
         List(<<Str(<<" ","r","e","s","i","d","e","n","t","i","a","l","_","v","a","c","a","n","t"," ">>)>>),
         List(<<Str(S_agricultural), Str(<<"R","E","S","I","D","E","N","T","I","A","L"," ","v","a","c","a","n","t">>)>>)},
     property_land_type :
        {NoValue, Str(S_residential_vacant), Str(<<>>),
         Str(<<" ","R","e","s","i","d","e","n","t","i","a","l","_","V","a","c","a","n","t">>),
         LandTypeObj(S_residential_vacant, <<"R","e","s","i","d","e","n","t","i","a","l"," ","V","a","c","a","n","t">>),
         LandTypeObj(S_residential_vacant, <<"R","e","s","i","d","e","n","t","i","a","l"," ","V","a","c","a","n","t"," ">>),
         LandTypeObj(S_residential_vacant, <<"V","a","c","a","n","t"," ","L","o","t">>)}]

\* The values of BuyBoxFilter.EXIT_STRATEGY_CHOICES.
EXIT_STRATEGY_CHOICES ==
    {<<"i","n","f","i","l","l">>,
     <<"f","l","i","p">>,
     <<"s","u","b","d","i","v","i","d","e">>,
     <<"s","e","l","l","e","r","_","f","i","n","a","n","c","i","n","g">>,
     <<"r","e","z","o","n","i","n","g">>,
     <<"m","o","b","i","l","e","_","h","o","m","e">>}

\* The exit-strategy scorer on its own.  The buyer's column: None, [], a bare
\* str, lists of one or two declared values, and lists of ' Flip ',
\* 'buy & flip', 'sub' and ''.  The property's strategy: None, '', a blank,
\* the declared values, ' FLIP ' and 'buy & flip'.
ExitStrategyCalls ==
    [fn : {"calculate_exit_strategy_match_score"},
     buyer_strategies :
        {NoValue, List(<<>>), Str(S_flip)}
        \cup {List(<<Str(a)>>) :
                 a \in EXIT_STRATEGY_CHOICES
                        \cup {<<" ","F","l","i","p"," ">>, <<"b","u","y"," ","&"," ","f","l","i","p">>,
                              <<"s","u","b">>, <<>>}}
        \cup {List(<<Str(a), Str(b)>>) : a, b \in EXIT_STRATEGY_CHOICES},
     property_strategy :
        {NoValue, Str(<<>>), Str(<<" ">>), Str(<<" ","F","L","I","P"," ">>),
         Str(<<"b","u","y"," ","&"," ","f","l","i","p">>)}
        \cup {Str(a) : a \in EXIT_STRATEGY_CHOICES}]

\* The values the parser is called with: None, a number, the address texts of
\* the location scorer, the texts 'Tampa, FL, Polk, Extra', 'Milwaukee',
\* 'Tampa, FL 33602-1234, USA', 'Delhi 110001, India', 'London SW1A 1AA, UK',
\* 'london sw1a 1aa', '33602, Tampa', 'Tampa 33602, Miami 33101', 'Tampa, FL,
\* USA 33602', 'USA, Tampa', 'Tampa 33602 560001', 'A33602 33602, FL',
\* 'Tampa, , FL', 'Tampa,FL,United States', and lists of up to MaxComponents
\* elements: component records (one without
\* "long_name", one whose "long_name" is None, one without "types"), and
\* elements that are not component records (a str, a number, None).
MaxComponents == 3

ExtractCalls ==
    LET AddressTexts ==
            {<<"T","a","m","p","a",","," ","F","L",","," ","P","o","l","k",","," ","E","x","t","r","a">>,
             <<"M","i","l","w","a","u","k","e","e">>,
             <<"T","a","m","p","a",","," ","F","L"," ","3","3","6","0","2","-","1","2","3","4",","," ","U","S","A">>,
             <<"D","e","l","h","i"," ","1","1","0","0","0","1",","," ","I","n","d","i","a">>,
             <<"L","o","n","d","o","n"," ","S","W","1","A"," ","1","A","A",","," ","U","K">>,
             <<"l","o","n","d","o","n"," ","s","w","1","a"," ","1","a","a">>,
             <<"3","3","6","0","2",","," ","T","a","m","p","a">>,
             <<"T","a","m","p","a"," ","3","3","6","0","2",","," ","M","i","a","m","i"," ","3","3","1","0","1">>,
             <<"T","a","m","p","a",","," ","F","L",","," ","U","S","A"," ","3","3","6","0","2">>,
             <<"U","S","A",","," ","T","a","m","p","a">>,
             <<"T","a","m","p","a"," ","3","3","6","0","2"," ","5","6","0","0","0","1">>,
             <<"A","3","3","6","0","2"," ","3","3","6","0","2",","," ","F","L">>,
             <<"T","a","m","p","a",","," ",","," ","F","L">>,
             <<"T","a","m","p","a",",","F","L",",","U","n","i","t","e","d"," ","S","t","a","t","e","s">>}
        ComponentPool ==
            {Component(<<Str(<<"l","o","c","a","l","i","t","y">>)>>, <<" ","T","a","m","p","a"," ">>),
             Component(<<Str(<<"a","d","m","i","n","i","s","t","r","a","t","i","v","e","_",
                               "a","r","e","a","_","l","e","v","e","l","_","2">>)>>,
                       <<"P","o","l","k">>),
             Component(<<Str(<<"a","d","m","i","n","i","s","t","r","a","t","i","v","e","_",
                               "a","r","e","a","_","l","e","v","e","l","_","2">>)>>, <<>>),
             Component(<<Str(<<"a","d","m","i","n","i","s","t","r","a","t","i","v","e","_",
                               "a","r","e","a","_","l","e","v","e","l","_","3">>)>>,
                       <<"B","r","a","n","d","o","n">>),
             Component(<<Str(<<"a","d","m","i","n","i","s","t","r","a","t","i","v","e","_",
                               "a","r","e","a","_","l","e","v","e","l","_","1">>),
                         Str(<<"p","o","l","i","t","i","c","a","l">>)>>, <<"F","L">>),
             Component(<<Str(<<"c","o","u","n","t","r","y">>)>>, <<"U","S","A">>),
             Component(<<Str(<<"p","o","s","t","a","l","_","c","o","d","e">>)>>,
                       <<"3","3","6","0","2">>),
             Component(<<Str(<<"s","u","b","l","o","c","a","l","i","t","y">>)>>,
                       <<"Y","b","o","r">>),
             Component(<<Str(<<"l","o","c","a","l","i","t","y">>)>>, None),
             Component(<<>>, <<"1","2","3">>),
             Str(S_abc), Dec(5), NoValue}
    IN  [fn : {"extract_location_components"},
         address_or_components :
            {NoValue, Dec(42)}
            \cup {Str(text) : text \in (LocationTexts \ {None}) \cup AddressTexts}
            \cup {List(comps) :
                     comps \in UNION {[1..n -> ComponentPool] : n \in 0..MaxComponents}}]

Init ==
    /\ \/ call \in EvaluatorCalls
       \/ call \in LocationCalls
       \/ call \in LotSizeCalls
       \/ call \in PriceCalls
       \/ call \in ClassifyCalls
       \/ call \in PoolCalls
       \/ call \in BuyBoxCalls
       \/ call \in ExtractCalls
       \/ call \in LandTypeCalls
       \/ call \in ExitStrategyCalls
    /\ ret = Pending

\* The two records after a call of the evaluator, had it stored the lot size
\* it normalises to acres.
inputs_after_storing_acres(property_instance, buyer_filter) ==
    [property |-> [property_instance EXCEPT
                      !.lot_size = normalize_lot_size_to_acres(property_instance.lot_size,
                                                               property_instance.lot_size_unit)],
     buyer |-> buyer_filter]

\* The two records after a call of the evaluator: it assigns to its locals
\* only, to no attribute of property_instance or buyer_filter.
inputs_after_evaluation(property_instance, buyer_filter) ==
    [property |-> property_instance, buyer |-> buyer_filter]

Evaluate ==
    /\ call.fn = "match_property_to_single_buyer"
    /\ ret = Pending
    /\ ret' = match_property_to_single_buyer(call.property, call.buyer)
    /\ call' = [call EXCEPT
                  !.property = inputs_after_evaluation(call.property, call.buyer).property,
                  !.buyer = inputs_after_evaluation(call.property, call.buyer).buyer]

\* The evaluator called once more on the records the first call left.
EvaluateAgain ==
    /\ call.fn = "match_property_to_single_buyer"
    /\ ret.status # "pending"
    /\ "again" \notin DOMAIN ret
    /\ ret' = match_property_to_single_buyer(call.property, call.buyer) @@ ("again" :> TRUE)
    /\ call' = [call EXCEPT
                  !.property = inputs_after_evaluation(call.property, call.buyer).property,
                  !.buyer = inputs_after_evaluation(call.property, call.buyer).buyer]

ScoreLocation ==
    /\ call.fn = "calculate_location_match_score"
    /\ ret = Pending
    /\ ret' = Returned(calculate_location_match_score(call.buyer_address,
                                                      call.property_address))
    /\ UNCHANGED call

ScoreLotSize ==
    /\ call.fn = "lot_size_component"
    /\ ret = Pending
    /\ ret' = Returned(lot_size_component(call.lot.lot_size, call.lot.lot_size_unit,
                                          call.lot_size_min, call.lot_size_max))
    /\ UNCHANGED call

ScorePrice ==
    /\ call.fn = "calculate_price_match_score"
    /\ ret = Pending
    /\ ret' = Returned(calculate_price_match_score(call.price_min, call.price_max,
                                                   call.agreed_price))
    /\ UNCHANGED call

\* The contributions are the total alone: the classification reads only it.
Classify ==
    /\ call.fn = "classify_and_return"
    /\ ret = Pending
    /\ ret' = Returned(classify_and_return(NoScores,
                                           [NoScores EXCEPT !.location = call.total_score],
                                           call.total_score))
    /\ UNCHANGED call

ScanBuyers ==
    /\ call.fn = "match_property_to_buyers"
    /\ ret = Pending
    /\ ret' = match_property_to_buyers(call.property, call.table)
    /\ UNCHANGED call

ScanProperties ==
    /\ call.fn = "get_matching_results"
    /\ ret = Pending
    /\ ret' = Returned(get_matching_results(call.buybox_filter, call.table))
    /\ UNCHANGED call

ExtractComponents ==
    /\ call.fn = "extract_location_components"
    /\ ret = Pending
    /\ ret' = extract_location_components_of(call.address_or_components)
    /\ UNCHANGED call

ScoreLandType ==
    /\ call.fn = "calculate_land_type_match_score"
    /\ ret = Pending
    /\ ret' = Returned(calculate_land_type_match_score(call.buyer_land_property_types,
                                                       call.property_land_type))
    /\ UNCHANGED call

ScoreExitStrategy ==
    /\ call.fn = "calculate_exit_strategy_match_score"
    /\ ret = Pending
    /\ ret' = Returned(calculate_exit_strategy_match_score(call.buyer_strategies,
                                                           call.property_strategy))
    /\ UNCHANGED call

Next ==
    \/ Evaluate \/ EvaluateAgain \/ ScoreLocation \/ ScoreLotSize \/ ScorePrice \/ Classify
    \/ ScanBuyers \/ ScanProperties \/ ExtractComponents \/ ScoreLandType
    \/ ScoreExitStrategy

Spec == Init /\ [][Next]_vars

(***************************************************************************)
(* Properties of the evaluator                                             *)
(***************************************************************************)
\* The call has ended, by a return or by an exception.
Ended(fn) == call.fn = fn /\ ret.status # "pending"

Evaluated == Ended("match_property_to_single_buyer")

\* The three conditions of eligibility, as the specification words them.
Inactive(buyer) == ~buyer.is_active_buyer

Blacklisted(buyer) == buyer.is_blacklisted

HousesOnly(buyer) == buyer.asset_type = S_houses

Eligible(buyer) == ~Inactive(buyer) /\ ~Blacklisted(buyer) /\ ~HousesOnly(buyer)

ReturnedNone == ret.status = "returned" /\ ret.value.is_none

ReturnedResult == ret.status = "returned" /\ ~ret.value.is_none

AllScores(x) == \A name \in ComponentNames : ret.component_scores[name] = x

Hundred == Frac(100, 1)

\* 40*location + 30*land_type + 20*exit_strategy + 5*lot_size + 5*price
WeightedTotal(scores) ==
    Frac(40 * scores.location.n * scores.land_type.d * scores.exit_strategy.d
                * scores.lot_size.d * scores.price.d
         + 30 * scores.land_type.n * scores.location.d * scores.exit_strategy.d
                * scores.lot_size.d * scores.price.d
         + 20 * scores.exit_strategy.n * scores.location.d * scores.land_type.d
                * scores.lot_size.d * scores.price.d
         + 5 * scores.lot_size.n * scores.location.d * scores.land_type.d
                * scores.exit_strategy.d * scores.price.d
         + 5 * scores.price.n * scores.location.d * scores.land_type.d
                * scores.exit_strategy.d * scores.lot_size.d,
         scores.location.d * scores.land_type.d * scores.exit_strategy.d
                * scores.lot_size.d * scores.price.d)

\* C1: match_property_to_single_buyer returns None for every buyer that is
\* inactive, blacklisted or houses-only, for every property and whatever the
\* other criteria are, criteria that would score 100 included.
C1_IneligibleBuyerReturnsNone ==
    (Evaluated /\ (Inactive(call.buyer) \/ Blacklisted(call.buyer) \/ HousesOnly(call.buyer)))
        => (ReturnedNone /\ ~ret.scored)

\* A blacklisted buyer, active and buying land, whose criteria score 100 once
\* the blacklist flag is cleared, has been evaluated and got None.
C1_Witness ==
    /\ Evaluated
    /\ Blacklisted(call.buyer) /\ ~Inactive(call.buyer) /\ call.buyer.asset_type = S_land
    /\ match_property_to_single_buyer(
           call.property, [call.buyer EXCEPT !.is_blacklisted = FALSE]).total_score = Hundred
    /\ ReturnedNone

\* C2: the return value tells "not evaluated because ineligible" from
\* "evaluated and scored zero": an eligible buyer whose five component scores
\* are all 0 never gets the value the same buyer gets once blacklisted.
C2_IneligibleDiffersFromZeroScore ==
    (Evaluated /\ Eligible(call.buyer) /\ ret.status = "returned" /\ AllScores(Zero))
        => ret.value # match_property_to_single_buyer(
                           call.property, [call.buyer EXCEPT !.is_blacklisted = TRUE]).value

\* C3: in every eligible evaluation each of the five component scores is in
\* [0,1] and the total is 40*location + 30*land_type + 20*exit_strategy +
\* 5*lot_size + 5*price, hence in [0,100]; five scores of 1.0 give a total of
\* 100 and the category "Good Fit".
C3_ScoresAndTotal ==
    (Evaluated /\ Eligible(call.buyer))
        => /\ ret.scored
           /\ \A name \in ComponentNames :
                 RatLe(Zero, ret.component_scores[name]) /\ RatLe(ret.component_scores[name], One)
           /\ ret.total_score = WeightedTotal(ret.component_scores)
           /\ RatLe(Zero, ret.total_score) /\ RatLe(ret.total_score, Hundred)
           /\ AllScores(One)
                 => /\ ret.total_score = Hundred
                    /\ ReturnedResult
                    /\ ret.value.likelihood = "Good Fit"
                    /\ ret.value.match_score = Hundred

\* Scenario A: all five components score 1.0 and the result is a 100 "Good Fit".
C3_Witness ==
    /\ Evaluated /\ Eligible(call.buyer)
    /\ AllScores(One)
    /\ ReturnedResult
    /\ ret.value.match_score = Hundred /\ ret.value.likelihood = "Good Fit"

\* The five entries of a dict of the result added up.
SumOf(c) ==
    RatAdd(RatAdd(RatAdd(RatAdd(c.location, c.land_type), c.exit_strategy), c.lot_size), c.price)

\* |a - b| <= 1/k
Within(a, b, k) ==
    /\ k * (a.n * b.d - b.n * a.d) <= a.d * b.d
    /\ k * (b.n * a.d - a.n * b.d) <= a.d * b.d

Weights == [location |-> 40, land_type |-> 30, exit_strategy |-> 20, lot_size |-> 5, price |-> 5]

\* C4 as worded: in every result the five entries of component_contributions
\* sum to match_score.
C4_ReportedContributionsSumToScore ==
    (Evaluated /\ ReturnedResult)
        => SumOf(ret.value.component_contributions) = ret.value.match_score

\* C4: in every result the five entries of weighted_contribution are the
\* component scores times 40, 30, 20, 5 and 5, whether or not a component had
\* data, and sum to the total score; match_score is that total rounded to two
\* decimals and each entry of component_contributions is the contribution
\* rounded to one decimal, so the rounded entries sum to match_score only to
\* within the roundings.
C4_ContributionsSumToTotal ==
    (Evaluated /\ ReturnedResult)
        => /\ \A name \in ComponentNames :
                 /\ ret.value.weighted_contribution[name]
                        = RatTimes(ret.component_scores[name], Weights[name])
                 /\ Within(ret.value.component_contributions[name],
                           ret.value.weighted_contribution[name], 20)
                 /\ ret.value.component_contributions[name].d \in {1, 2, 5, 10}
           /\ SumOf(ret.value.weighted_contribution) = ret.total_score
           /\ Within(ret.value.match_score, ret.total_score, 200)
           /\ 100 % ret.value.match_score.d = 0

\* A location score of 1/3: the contributions reported add up to 73.3 and the
\* score reported is 73.33.
C4_Witness ==
    /\ Evaluated /\ ReturnedResult
    /\ ret.component_scores.location = Frac(1, 3)
    /\ SumOf(ret.value.component_contributions) = Frac(733, 10)
    /\ ret.value.match_score = Frac(7333, 100)

\* The total score a category was computed from.
ClassifiedScore ==
    IF call.fn = "classify_and_return" THEN call.total_score ELSE ret.total_score

Classified ==
    /\ Ended("classify_and_return") \/ Evaluated
    /\ ReturnedResult

\* C5: the category of a result is a function of the total score only: above
\* 45 "Good Fit", from 40 to 45 "Marginal Fit", below 40 "Poor Fit"; 45.0 and
\* 40.0 are marginal, 45.01 is good and 39.99 is poor.
C5_FitCategory ==
    Classified
        => /\ ret.value.likelihood \in {"Good Fit", "Marginal Fit", "Poor Fit"}
           /\ ret.value.likelihood = "Good Fit" <=> RatLt(Frac(45, 1), ClassifiedScore)
           /\ ret.value.likelihood = "Poor Fit" <=> RatLt(ClassifiedScore, Frac(40, 1))
           /\ ClassifiedScore \in {Frac(45, 1), Frac(40, 1)}
                 => ret.value.likelihood = "Marginal Fit"
           /\ ClassifiedScore = Frac(4501, 100) => ret.value.likelihood = "Good Fit"
           /\ ClassifiedScore = Frac(3999, 100) => ret.value.likelihood = "Poor Fit"

\* A total of exactly 45.0 has been classified, as marginal.
C5_Witness ==
    /\ Ended("classify_and_return") /\ ReturnedResult
    /\ call.total_score = Frac(45, 1)
    /\ ret.value.likelihood = "Marginal Fit"

\* C6: for an eligible buyer the evaluator returns None when the total score
\* is below 1 and a result for every total of 1 or more; nothing but this
\* floor suppresses a score.
C6_OnlyTheFloorSuppresses ==
    (Evaluated /\ Eligible(call.buyer))
        => IF RatLt(ret.total_score, One) THEN ReturnedNone ELSE ReturnedResult

\* C7: "Tampa, FL" against "123 Main St, Tampa, FL 33602" scores 1.0, city
\* and state both counting and the zip left out.
C7_CityStateAgainstStreetAddress ==
    (Ended("calculate_location_match_score")
       /\ call.buyer_address = A_Tampa_FL /\ call.property_address = A_Main_St)
        => /\ ret.value.score = One
           /\ ret.value.matches = 2 /\ ret.value.total_components = 2

\* The lot size of a call in acres, as a rational.
AcresOf(lot) ==
    IF lot.lot_size_unit = S_sqft THEN Frac(lot.lot_size.n, SqftPerAcre)
    ELSE Frac(lot.lot_size.n, 1)

LotSizeScored == Ended("lot_size_component")

\* C8 as worded: the lot-size component is 1.0 exactly when the size in acres
\* lies in the buyer's inclusive range, 0.0 otherwise.
C8_InRangeExactly ==
    (LotSizeScored /\ call.lot.lot_size.t = "Decimal"
       /\ call.lot_size_min.t = "Decimal" /\ call.lot_size_max.t = "Decimal")
        => ret.value = IF /\ RatLe(Frac(call.lot_size_min.n, 1), AcresOf(call.lot))
                          /\ RatLe(AcresOf(call.lot), Frac(call.lot_size_max.n, 1))
                       THEN One ELSE Zero

\* A bound that is given: neither None nor 0.
Given(bound) == bound.t = "Decimal" /\ bound.n # 0

\* C8: a lot size in square feet is divided by 43,560, once, and the lot-size
\* component is 1.0 exactly when the property's size is given and not 0 and
\* its size in acres is no less than the minimum, if one is given, and no more
\* than the maximum, if one is given, a bound of 0 counting as not given; it
\* is 0.0 otherwise.
C8_LotSizeInGivenRange ==
    LotSizeScored
        => ret.value = IF /\ Given(call.lot.lot_size)
                          /\ Given(call.lot_size_min)
                                => RatLe(Frac(call.lot_size_min.n, 1), AcresOf(call.lot))
                          /\ Given(call.lot_size_max)
                                => RatLe(AcresOf(call.lot), Frac(call.lot_size_max.n, 1))
                       THEN One ELSE Zero

\* 108,900 square feet against [2, 3] acres has scored 1.0.
C8_Witness ==
    /\ LotSizeScored
    /\ call.lot = [lot_size |-> Dec(108900), lot_size_unit |-> S_sqft]
    /\ call.lot_size_min = Dec(2) /\ call.lot_size_max = Dec(3)
    /\ ret.value = One

PriceScored == Ended("calculate_price_match_score")

\* Scenario D: a price above the buyer's maximum, the other four matching.
PriceAloneMisses ==
    /\ Evaluated /\ Eligible(call.buyer)
    /\ call.property.agreed_price.t = "Decimal"
    /\ call.property.agreed_price.n > call.buyer.price_max.n
    /\ \A name \in ComponentNames \ {"price"} : ret.component_scores[name] = One

ScenarioD ==
    PriceAloneMisses
        => /\ ret.component_scores.price = Zero
           /\ ReturnedResult
           /\ ret.value.match_score = Frac(95, 1) /\ ret.value.likelihood = "Good Fit"

\* C9 as worded: the price component is 1.0 exactly when the agreed price lies
\* in the buyer's inclusive range, a minimum of None being 0 and a maximum of
\* None infinity, and 0.0 otherwise.
C9_InRangeExactly ==
    (PriceScored /\ call.agreed_price.t = "Decimal")
        => ret.value = IF /\ call.price_min.t = "Decimal"
                                => call.price_min.n <= call.agreed_price.n
                          /\ call.price_max.t = "Decimal"
                                => call.agreed_price.n <= call.price_max.n
                       THEN One ELSE Zero

\* C9: the price component is 1.0 exactly when the agreed price is a number
\* other than 0, no less than the minimum, if one is given, and no more than
\* the maximum, if one is given, a bound of 0 counting as not given; it is 0.0
\* otherwise.  A price above the maximum with the other four components
\* matching gives a total of 95 and "Good Fit".
C9_PriceInGivenRange ==
    /\ PriceScored
          => ret.value = IF /\ Given(call.agreed_price)
                            /\ Given(call.price_min)
                                  => call.price_min.n <= call.agreed_price.n
                            /\ Given(call.price_max)
                                  => call.agreed_price.n <= call.price_max.n
                         THEN One ELSE Zero
    /\ ScenarioD

\* A price equal to the buyer's maximum has scored 1.0.
C9_Witness ==
    /\ PriceScored
    /\ Given(call.agreed_price) /\ Given(call.price_max)
    /\ call.agreed_price = call.price_max
    /\ ret.value = One

\* C10: with an agreed price that is None or not a number, the evaluation of
\* an eligible buyer does not raise: the price component scores 0.0 and the
\* evaluator returns.
C10_BadPriceDoesNotRaise ==
    (Evaluated /\ Eligible(call.buyer) /\ call.property.agreed_price.t \in {"None", "str"})
        => /\ ret.status = "returned"
           /\ ret.component_scores.price = Zero

(***************************************************************************)
(* Properties of the scan over the buyers                                  *)
(***************************************************************************)
Scanned == Ended("match_property_to_buyers") /\ ret.status = "returned"

Entries(seq) == {seq[i] : i \in 1..Len(seq)}

\* C11: all_matches is ordered by match_score descending, and two results
\* with equal match_score come in the order of their buyers in the table.
C11_SortedDescendingAndStable ==
    Scanned
        => \A i, j \in 1..Len(ret.value.all_matches) :
              i < j => /\ RatLe(ret.value.all_matches[j].match_score,
                                ret.value.all_matches[i].match_score)
                       /\ ret.value.all_matches[i].match_score
                              = ret.value.all_matches[j].match_score
                            => ret.value.all_matches[i].buyer < ret.value.all_matches[j].buyer

\* Three matches: the first row of the table scored least and comes last, the
\* other two tie and keep their order.
C11_Witness ==
    /\ Scanned
    /\ Len(ret.value.all_matches) = 3
    /\ ret.value.all_matches[1].buyer = 2 /\ ret.value.all_matches[2].buyer = 3
    /\ ret.value.all_matches[3].buyer = 1
    /\ ret.value.all_matches[1].match_score = ret.value.all_matches[2].match_score
    /\ RatLt(ret.value.all_matches[3].match_score, ret.value.all_matches[2].match_score)

\* The rows of the table that pass the filter of the query.
PassFilter(table) ==
    {i \in 1..Len(table) : /\ ~Inactive(table[i]) /\ ~Blacklisted(table[i])
                           /\ table[i].asset_type \in {S_land, S_both}}

\* C12: the three buckets are pairwise disjoint and together hold exactly the
\* entries of all_matches; good_fit_count + marginal_fit_count +
\* poor_fit_count = total_matches <= total_buyers_evaluated, the number of
\* buyers that passed the filter of the query.
C12_BucketsPartitionMatches ==
    Scanned
        => /\ Entries(ret.value.good_fit_buyers) \cap Entries(ret.value.marginal_fit_buyers) = {}
           /\ Entries(ret.value.good_fit_buyers) \cap Entries(ret.value.poor_fit_buyers) = {}
           /\ Entries(ret.value.marginal_fit_buyers) \cap Entries(ret.value.poor_fit_buyers) = {}
           /\ Entries(ret.value.good_fit_buyers) \cup Entries(ret.value.marginal_fit_buyers)
                 \cup Entries(ret.value.poor_fit_buyers) = Entries(ret.value.all_matches)
           /\ Cardinality(Entries(ret.value.all_matches)) = Len(ret.value.all_matches)
           /\ ret.value.summary.total_matches = Len(ret.value.all_matches)
           /\ ret.value.summary.good_fit_count = Len(ret.value.good_fit_buyers)
           /\ ret.value.summary.marginal_fit_count = Len(ret.value.marginal_fit_buyers)
           /\ ret.value.summary.poor_fit_count = Len(ret.value.poor_fit_buyers)
           /\ ret.value.summary.good_fit_count + ret.value.summary.marginal_fit_count
                 + ret.value.summary.poor_fit_count = ret.value.summary.total_matches
           /\ ret.value.summary.total_matches <= ret.value.summary.total_buyers_evaluated
           /\ ret.value.summary.total_buyers_evaluated = Cardinality(PassFilter(call.table))

\* One match in each bucket, the marginal one at exactly 40, from a table with
\* three rows.
C12_Witness ==
    /\ Scanned
    /\ ret.value.summary.good_fit_count = 1
    /\ ret.value.summary.marginal_fit_count = 1
    /\ ret.value.summary.poor_fit_count = 1
    /\ ret.value.marginal_fit_buyers[1].match_score = Frac(40, 1)
    /\ ret.value.summary.total_buyers_evaluated = 3

\* C13: the filter of the query is only an optimization: a buyer of the table
\* is in all_matches if and only if match_property_to_single_buyer returns a
\* result for the property and that buyer, a buyer with a blank asset_type
\* included.
C13_FilterIsOnlyAnOptimization ==
    Scanned
        => \A i \in 1..Len(call.table) :
              (\E k \in 1..Len(ret.value.all_matches) : ret.value.all_matches[k].buyer = i)
                  <=> ~match_property_to_single_buyer(call.property, call.table[i]).value.is_none

C15_BuyBoxScanListsEveryMatch ==
    Ended("get_matching_results")
        => /\ \A i \in 1..Len(call.table) :
                 (/\ call.table[i].status = "submitted"
                  /\ ~match_property_to_single_buyer(call.table[i].property,
                                                     call.buybox_filter).value.is_none)
                    <=> \E k \in 1..Len(ret.value.matches) :
                           /\ ret.value.matches[k].property_id = i
                           /\ ret.value.matches[k].match_score
                                 = match_property_to_single_buyer(
                                       call.table[i].property,
                                       call.buybox_filter).value.match_score
                           /\ ret.value.matches[k].likelihood
                                 = match_property_to_single_buyer(
                                       call.table[i].property,
                                       call.buybox_filter).value.likelihood
           /\ \A j, k \in 1..Len(ret.value.matches) :
                 j < k => RatLe(ret.value.matches[k].match_score,
                                ret.value.matches[j].match_score)
           /\ ret.value.match_summary.good_fit + ret.value.match_summary.marginal_fit
                 + ret.value.match_summary.poor_fit = Len(ret.value.matches)

(***************************************************************************)
(* Properties of the location scorer                                       *)
(***************************************************************************)
\* The scorer has ended on two texts that are neither None nor ''.
LocationScored ==
    /\ Ended("calculate_location_match_score")
    /\ call.buyer_address \notin {None, <<>>}
    /\ call.property_address \notin {None, <<>>}

\* A text that is None, empty, or made of blanks and commas only.
EmptyText(text) == text = None \/ \A i \in 1..Len(text) : IsSpace(text[i]) \/ text[i] = ","

\* C16: the location scorer returns 0.0 with the reason "missing address"
\* whenever the buyer's text or the property address is empty or missing, a
\* text of blanks only or of commas only included.
C16_EmptyTextIsMissingAddress ==
    (Ended("calculate_location_match_score")
       /\ (EmptyText(call.buyer_address) \/ EmptyText(call.property_address)))
        => (ret.value.score = Zero /\ ret.value.reason = "missing address")

\* A parsed component trimmed and lowercased.
Folded(component) == lower(strip(component))

\* The two parsed sides name different countries.
CountriesDiffer(buyer, property) ==
    /\ buyer.country # None /\ property.country # None
    /\ Folded(buyer.country) # Folded(property.country)

\* C17: when both parsed addresses have a country and the two differ after
\* trimming and lowercasing, the score is exactly 0.1 with a country-mismatch
\* annotation, whatever the other components are; otherwise the score is what
\* the comparison gives with the country taken away from both sides.
C17_CountryMismatch ==
    LocationScored
        => LET buyer == extract_location_components(call.buyer_address)
               property == extract_location_components(call.property_address)
           IN  IF CountriesDiffer(buyer, property)
               THEN ret.value.score = Frac(1, 10) /\ ret.value.reason = "country_mismatch"
               ELSE /\ ret.value.reason # "country_mismatch"
                    /\ ret.value = compare_components(
                           normalized_components([buyer EXCEPT !.country = None]),
                           normalized_components([property EXCEPT !.country = None]),
                           call.buyer_address, call.property_address)

\* 'Tampa, FL, USA' against 'Miami, FL, India': the same state, 0.1.
C17_Witness ==
    /\ LocationScored
    /\ extract_location_components(call.buyer_address).country = <<"U","S","A">>
    /\ extract_location_components(call.property_address).country = <<"I","n","d","i","a">>
    /\ extract_location_components(call.buyer_address).state
          = extract_location_components(call.property_address).state
    /\ ret.value.score = Frac(1, 10)

\* The components both parsed sides have, and those of them that agree.
BothHave(buyer, property) ==
    {k \in {"city", "state", "county", "zip_code"} : buyer[k] # None /\ property[k] # None}

Agree(buyer, property) ==
    {k \in BothHave(buyer, property) : Folded(buyer[k]) = Folded(property[k])}

\* C19: when no country mismatch applies, each of city, state, county and
\* zip_code counts in the denominator only if both parsed sides have it and
\* in the numerator if the trimmed lowercased values are equal, and the score
\* is numerator/denominator whenever the denominator is above 0; the same
\* state with a different city and no county or zip gives 0.5.
C19_ComponentRatio ==
    LocationScored
        => LET buyer == extract_location_components(call.buyer_address)
               property == extract_location_components(call.property_address)
           IN  (~CountriesDiffer(buyer, property) /\ BothHave(buyer, property) # {})
                  => /\ ret.value.reason = "calculation"
                     /\ ret.value.total_components = Cardinality(BothHave(buyer, property))
                     /\ ret.value.matches = Cardinality(Agree(buyer, property))
                     /\ ret.value.score = Frac(Cardinality(Agree(buyer, property)),
                                               Cardinality(BothHave(buyer, property)))

\* 'Tampa, FL' against 'Miami, FL, Polk, 33611': the county and the zip of the
\* property are left out, the state agrees, the city does not: 0.5.
C19_Witness ==
    /\ LocationScored
    /\ call.buyer_address = A_Tampa_FL
    /\ extract_location_components(call.property_address).county = <<"P","o","l","k">>
    /\ extract_location_components(call.property_address).zip_code # None
    /\ ret.value.matches = 1 /\ ret.value.total_components = 2
    /\ ret.value.score = Frac(1, 2)

\* The tokens of a text: the runs of characters between blanks and commas
\* that are longer than 2, lowercased.
Separator(c) == IsSpace(c) \/ c = ","

Tokens(text) ==
    {lower(SubSeq(text, i, j)) : <<i, j>> \in
        {ij \in (1..Len(text)) \X (1..Len(text)) :
            /\ ij[2] - ij[1] + 1 > 2
            /\ \A k \in ij[1]..ij[2] : ~Separator(text[k])
            /\ ij[1] = 1 \/ Separator(text[ij[1] - 1])
            /\ ij[2] = Len(text) \/ Separator(text[ij[2] + 1])}}

\* min(0.7, overlap) if overlap >= 0.3, else 0.0, for overlap = |common| / |all|.
OverlapScore(common, all) ==
    IF all = {} \/ 10 * Cardinality(common) < 3 * Cardinality(all) THEN Zero
    ELSE IF 10 * Cardinality(common) > 7 * Cardinality(all) THEN Frac(7, 10)
    ELSE Frac(Cardinality(common), Cardinality(all))

\* The comparison falls back to the whole strings: no country mismatch and no
\* component that both sides have.
FellBack ==
    /\ LocationScored
    /\ ~CountriesDiffer(extract_location_components(call.buyer_address),
                        extract_location_components(call.property_address))
    /\ BothHave(extract_location_components(call.buyer_address),
                extract_location_components(call.property_address)) = {}

\* C20 as worded: in the fallback the score is 1.0 if the two whole strings
\* are equal ignoring case, and min(0.7, overlap) or 0.0 from the token sets
\* otherwise.
C20_FallbackEqualIgnoringCase ==
    FellBack
        => ret.value.score =
              IF lower(call.buyer_address) = lower(call.property_address) THEN One
              ELSE OverlapScore(Tokens(call.buyer_address) \cap Tokens(call.property_address),
                                Tokens(call.buyer_address) \cup Tokens(call.property_address))

\* C20: in the fallback the score is 1.0 if the two whole strings are equal
\* ignoring case and the blanks around them; otherwise, with the two sets of
\* tokens longer than 2 characters, it is min(0.7, overlap) if overlap =
\* |intersection| / |union| is at least 0.3 and 0.0 if not, hence never above
\* 0.7 nor inside (0, 0.3).
C20_FallbackScore ==
    FellBack
        => /\ ret.value.score =
                 IF Folded(call.buyer_address) = Folded(call.property_address) THEN One
                 ELSE OverlapScore(
                          Tokens(call.buyer_address) \cap Tokens(call.property_address),
                          Tokens(call.buyer_address) \cup Tokens(call.property_address))
           /\ Folded(call.buyer_address) # Folded(call.property_address)
                 => /\ RatLe(ret.value.score, Frac(7, 10))
                    /\ ret.value.score = Zero \/ RatLe(Frac(3, 10), ret.value.score)

\* 'Tampa Bay area' against 'Tampa Bay area USA': three tokens of four in
\* common, capped at 0.7.
C20_Witness ==
    /\ FellBack
    /\ Cardinality(Tokens(call.buyer_address) \cap Tokens(call.property_address)) = 3
    /\ Cardinality(Tokens(call.buyer_address) \cup Tokens(call.property_address)) = 4
    /\ ret.value.score = Frac(7, 10)
    /\ ret.value.reason = "partial_word_overlap"

(***************************************************************************)
(* Properties of the address parser                                        *)
(***************************************************************************)
Extracted == call.fn = "extract_location_components" /\ ret.status # "pending"

\* The argument is empty (an empty or whitespace-only str, an empty list) or
\* of an unexpected shape (None, a number, a list with an element that is not
\* a component record).
EmptyOrUnexpected(x) ==
    \/ x.t = "str" /\ strip(x.s) = <<>>
    \/ x.t = "list" /\ x.items = <<>>
    \/ x.t \in {"None", "Decimal", "float"}
    \/ x.t = "list" /\ \E i \in 1..Len(x.items) : x.items[i].t # "dict"

\* C18: extract_location_components never raises, and on an input that is
\* empty (empty or whitespace-only string, empty list) or of an unexpected
\* shape (null, a number, a list whose elements are not component records) it
\* returns the structure with all six fields null.
C18_NeverRaisesAndAllNull ==
    Extracted =>
        /\ ret.status = "returned"
        /\ EmptyOrUnexpected(call.address_or_components) => ret.value = NoComponents

Comps == call.address_or_components.items

\* The call was given a list and returned.
ListParsed ==
    Extracted /\ call.address_or_components.t = "list" /\ ret.status = "returned"

HasTag(comp, type) == \E i \in 1..Len(comp.items) : comp.items[i] = Str(type)

\* What a component is tagged as.
Kind(comp) ==
    IF \/ HasTag(comp, <<"l","o","c","a","l","i","t","y">>)
       \/ HasTag(comp, <<"s","u","b","l","o","c","a","l","i","t","y">>)
    THEN "city"
    ELSE IF HasTag(comp, <<"a","d","m","i","n","i","s","t","r","a","t","i","v","e","_",
                           "a","r","e","a","_","l","e","v","e","l","_","2">>)
    THEN "level_2"
    ELSE IF HasTag(comp, <<"a","d","m","i","n","i","s","t","r","a","t","i","v","e","_",
                           "a","r","e","a","_","l","e","v","e","l","_","3">>)
    THEN "level_3"
    ELSE IF HasTag(comp, <<"a","d","m","i","n","i","s","t","r","a","t","i","v","e","_",
                           "a","r","e","a","_","l","e","v","e","l","_","1">>)
    THEN "state"
    ELSE IF HasTag(comp, <<"c","o","u","n","t","r","y">>) THEN "country"
    ELSE IF HasTag(comp, <<"p","o","s","t","a","l","_","c","o","d","e">>) THEN "zip_code"
    ELSE "other"

Places(kind) == {i \in 1..Len(Comps) : Kind(Comps[i]) = kind}

Least(S) == CHOOSE i \in S : \A j \in S : i <= j

Greatest(S) == CHOOSE i \in S : \A j \in S : j <= i

\* The trimmed name of the last component of a kind, None when there is none.
NameOfLast(kind) ==
    IF Places(kind) = {} THEN None ELSE strip(Comps[Greatest(Places(kind))].s)

\* city, state, country and zip_code are the names of the components tagged so.
FieldsByTag ==
    /\ ret.value.city = NameOfLast("city")
    /\ ret.value.state = NameOfLast("state")
    /\ ret.value.country = NameOfLast("country")
    /\ ret.value.zip_code = NameOfLast("zip_code")

\* Every level_2 and level_3 component has a name that is not blank.
CountiesNamed ==
    \A i \in Places("level_2") \cup Places("level_3") : strip(Comps[i].s) # <<>>

\* C21 as stated: on the structured path the tagged components set city,
\* state, country and zip_code, county is the administrative_area_level_2
\* component's name whenever the list holds one, in whatever order, and
\* administrative_area_level_3 supplies county only when the list holds no
\* level_2 component.
C21_CountyIsLevel2WhenPresent ==
    ListParsed =>
        /\ FieldsByTag
        /\ ret.value.county =
              IF Places("level_2") # {} THEN NameOfLast("level_2")
              ELSE IF Places("level_3") # {}
                   THEN strip(Comps[Least(Places("level_3"))].s)
                   ELSE None

\* C21, amended: the tagged components set city, state, country and zip_code
\* (the last one of a kind wins), and when no level_2 or level_3 component
\* has a blank name, county is the name of the last level_2 component if the
\* list holds one, in whatever order, and otherwise the name of the first
\* level_3 component, if any.
C21_ComponentsByTag ==
    ListParsed =>
        /\ FieldsByTag
        /\ CountiesNamed =>
              ret.value.county =
                  IF Places("level_2") # {} THEN NameOfLast("level_2")
                  ELSE IF Places("level_3") # {}
                       THEN strip(Comps[Least(Places("level_3"))].s)
                       ELSE None

\* A level_3 component comes before a level_2 component, and county is the
\* level_2 name.
C21_Witness ==
    /\ ListParsed
    /\ CountiesNamed
    /\ \E i \in Places("level_3"), j \in Places("level_2") : i < j
    /\ Places("city") # {}
    /\ ret.value.county = <<"P","o","l","k">>

\* The call was given a text (it always returns).
TextParsed == Extracted /\ call.address_or_components.t = "str"

\* The comma-separated segments of the text, trimmed, the empty ones left out.
Segments == stripped_parts(split(strip(call.address_or_components.s), ","))

\* The last segment contains, ignoring case, a known country name.
CountryTaken ==
    /\ Segments # <<>>
    /\ \E country \in known_countries : In(country, lower(Segments[Len(Segments)]))

\* The segments left once the country is removed.
WithoutCountry ==
    IF CountryTaken THEN SubSeq(Segments, 1, Len(Segments) - 1) ELSE Segments

\* The segments left after postal-code stripping and removal of the empty ones.
Remaining == non_empty([i \in 1..Len(WithoutCountry) |-> zip_step(WithoutCountry[i]).part])

\* C22: on the free-text path the last comma-separated segment becomes
\* country and leaves the segment list exactly when it contains, ignoring
\* case, a known country name; of the segments remaining after postal-code
\* stripping and removal of the empty ones the first is city, the second state
\* and the third county, a field being null when its segment does not exist;
\* so the country segment is never city, state or county.
C22_CountryThenCityStateCounty ==
    TextParsed =>
        /\ ret.status = "returned"
        /\ ret.value.country = IF CountryTaken THEN Segments[Len(Segments)] ELSE None
        /\ ret.value.city = IF Len(Remaining) >= 1 THEN Remaining[1] ELSE None
        /\ ret.value.state = IF Len(Remaining) >= 2 THEN Remaining[2] ELSE None
        /\ ret.value.county = IF Len(Remaining) >= 3 THEN Remaining[3] ELSE None
        /\ CountryTaken =>
              Cardinality({f \in {"city", "state", "county"} : ret.value[f] # None})
                  <= Len(Segments) - 1

\* Three segments, the last one a country: city and state are set, county is not.
C22_Witness ==
    /\ TextParsed
    /\ CountryTaken
    /\ Len(Segments) = 3
    /\ ret.value.country = Segments[3]
    /\ ret.value.city = Segments[1]
    /\ ret.value.state = Segments[2]
    /\ ret.value.county = None

\* The first pattern, in the order US ZIP, Indian PIN, UK postcode, that is
\* found in a segment; "none" when none is.
PatternIn(segment) ==
    IF re_search("us_zip", segment) # 0 THEN "us_zip"
    ELSE IF re_search("indian_pin", segment) # 0 THEN "indian_pin"
    ELSE IF re_search("uk_postcode", segment) # 0 THEN "uk_postcode"
    ELSE "none"

\* The segments (the country removed) that hold a postal code.
Holders == {i \in 1..Len(WithoutCountry) : PatternIn(WithoutCountry[i]) # "none"}

\* The postal code found in a segment that holds one.
PostalCodeIn(segment) == zip_taken(PatternIn(segment), segment).zip

\* A segment with every match of its pattern removed, and trimmed.
Stripped(segment) ==
    IF PatternIn(segment) = "none" THEN segment
    ELSE strip(re_sub(PatternIn(segment), segment))

\* The segments stripped, the empty ones dropped.
StrippedSegments == non_empty([i \in 1..Len(WithoutCountry) |-> Stripped(WithoutCountry[i])])

AssignedByPosition ==
    /\ ret.value.city = IF Len(StrippedSegments) >= 1 THEN StrippedSegments[1] ELSE None
    /\ ret.value.state = IF Len(StrippedSegments) >= 2 THEN StrippedSegments[2] ELSE None
    /\ ret.value.county = IF Len(StrippedSegments) >= 3 THEN StrippedSegments[3] ELSE None

LandTypeScored == Ended("calculate_land_type_match_score")

\* The text of a land type (the entry itself, or the display name of a
\* LandType row) lowercased, spaces and underscores alike, surrounding
\* whitespace ignored.
NormalizedLandType(x) == replace(lower(strip(ToStr(x))), " ", "_")

\* C24: calculate_land_type_match_score returns 1.0 if and only if some entry
\* of the buyer's desired land types equals the property's land type after
\* lowercasing, treating spaces and underscores alike and ignoring
\* surrounding whitespace, and 0.0 otherwise, including when the buyer's set
\* is empty or the property has no land type.
C24_EqualAfterNormalization ==
    LandTypeScored =>
        ret.value =
            IF /\ ~Falsy(call.buyer_land_property_types)
               /\ ~Falsy(call.property_land_type)
               /\ \E i \in 1..Len(as_list(call.buyer_land_property_types)) :
                     NormalizedLandType(as_list(call.buyer_land_property_types)[i])
                         = NormalizedLandType(call.property_land_type)
            THEN One ELSE Zero

ExitStrategyScored == Ended("calculate_exit_strategy_match_score")

BuyerStrategies == as_list(call.buyer_strategies)

\* Trimmed and lowercased.
NormalizedStrategy(x) == lower(strip(ToStr(x)))

\* The property's strategy contains, or is contained in, one of the buyer's.
ContainmentHit ==
    \E i \in 1..Len(BuyerStrategies) :
        \/ In(NormalizedStrategy(call.property_strategy), NormalizedStrategy(BuyerStrategies[i]))
        \/ In(NormalizedStrategy(BuyerStrategies[i]), NormalizedStrategy(call.property_strategy))

\* Both sides hold declared values only.
DeclaredOnly ==
    /\ call.buyer_strategies.t = "list"
    /\ call.property_strategy.t = "str"
    /\ call.property_strategy.s \in EXIT_STRATEGY_CHOICES
    /\ \A i \in 1..Len(BuyerStrategies) :
          BuyerStrategies[i].t = "str" /\ BuyerStrategies[i].s \in EXIT_STRATEGY_CHOICES

\* C25: calculate_exit_strategy_match_score returns 1.0 if and only if, after
\* trimming and lowercasing, the property's exit strategy contains or is
\* contained in at least one of the buyer's strategies, and 0.0 otherwise,
\* including when the buyer's list is empty or the property's strategy is
\* missing; over the six declared values this is membership of the property's
\* strategy in the buyer's list.
C25_ContainmentEitherWay ==
    ExitStrategyScored =>
        /\ ret.value =
              IF /\ ~Falsy(call.buyer_strategies)
                 /\ ~Falsy(call.property_strategy)
                 /\ ContainmentHit
              THEN One ELSE Zero
        /\ DeclaredOnly =>
              (ret.value = One <=> \E i \in 1..Len(BuyerStrategies) :
                                      BuyerStrategies[i] = call.property_strategy)

\* The buyer's 'flip' is contained in the property's 'buy & flip': a match
\* that is no equality.
C25_Witness ==
    /\ ExitStrategyScored
    /\ ret.value = One
    /\ Len(BuyerStrategies) = 1
    /\ NormalizedStrategy(BuyerStrategies[1]) # NormalizedStrategy(call.property_strategy)
    /\ In(NormalizedStrategy(BuyerStrategies[1]), NormalizedStrategy(call.property_strategy))
    /\ NormalizedStrategy(BuyerStrategies[1]) # <<>>

(***************************************************************************)
(* Properties that relate the evaluator, the scan and the scorers          *)
(***************************************************************************)
\* The bucket the scan puts a reported match_score in.
BucketOf(match_score) ==
    IF RatLt(Frac(45, 1), match_score) THEN "Good Fit"
    ELSE IF RatLe(Frac(40, 1), match_score) THEN "Marginal Fit"
    ELSE "Poor Fit"

\* C26: the bucket a result is placed in, decided from the reported
\* match_score (rounded to 2 decimals), agrees with its likelihood label,
\* decided from the unrounded total: in good_fit_buyers iff "Good Fit", in
\* marginal_fit_buyers iff "Marginal Fit", in poor_fit_buyers iff "Poor Fit".
C26_BucketAgreesWithLikelihood ==
    /\ Classified => BucketOf(ret.value.match_score) = ret.value.likelihood
    /\ Scanned =>
          \A m \in Entries(ret.value.all_matches) :
              /\ m \in Entries(ret.value.good_fit_buyers) <=> m.likelihood = "Good Fit"
              /\ m \in Entries(ret.value.marginal_fit_buyers) <=> m.likelihood = "Marginal Fit"
              /\ m \in Entries(ret.value.poor_fit_buyers) <=> m.likelihood = "Poor Fit"

\* A scan with a result in each bucket, the marginal one at 40 exactly.
C26_Witness ==
    /\ Scanned
    /\ Len(ret.value.all_matches) = 3
    /\ Len(ret.value.good_fit_buyers) = 1 /\ ret.value.good_fit_buyers[1].likelihood = "Good Fit"
    /\ Len(ret.value.marginal_fit_buyers) = 1
    /\ ret.value.marginal_fit_buyers[1].likelihood = "Marginal Fit"
    /\ ret.value.marginal_fit_buyers[1].match_score = Frac(40, 1)
    /\ Len(ret.value.poor_fit_buyers) = 1 /\ ret.value.poor_fit_buyers[1].likelihood = "Poor Fit"

\* C27: for an eligible buyer the evaluator returns null if and only if all
\* five component scores are 0.0: no total lies strictly between 0 and 4, so
\* every returned match_score is at least 4 and the floor removes exactly the
\* evaluations that scored zero.
C27_NullExactlyWhenAllZero ==
    Evaluated /\ Eligible(call.buyer) =>
        /\ ReturnedNone <=> AllScores(Zero)
        /\ ReturnedResult => RatLe(Frac(4, 1), ret.value.match_score)

\* The score of the same two texts in the other order.
SwappedScore ==
    calculate_location_match_score(call.property_address, call.buyer_address).score

\* C28: the location score is symmetric and reflexive: the score of (a, b) is
\* the score of (b, a), and for every non-empty text a the score of (a, a) is
\* 1.0.
C28_SymmetricAndReflexive ==
    Ended("calculate_location_match_score") =>
        /\ ret.value.score = SwappedScore
        /\ call.buyer_address = call.property_address /\ Truthy(call.buyer_address)
              => ret.value.score = One

\* The buyer's text has a component the property's text lacks, and the two
\* orders give the same score, which is neither 0 nor 1.
C28_Witness ==
    /\ LocationScored
    /\ call.buyer_address # call.property_address
    /\ Truthy(extract_location_components(call.buyer_address).zip_code)
    /\ ~Truthy(extract_location_components(call.property_address).zip_code)
    /\ ret.value.score = SwappedScore
    /\ RatLt(Zero, ret.value.score) /\ RatLt(ret.value.score, One)
    /\ ret.value.reason = "calculation"

\* A bound of 0 read as no bound.
AsAbsent(bound) == IF bound = Dec(0) THEN NoValue ELSE bound

\* C29: a buyer bound that is 0 is treated exactly like an absent bound in
\* both range scorers: the score with a minimum or a maximum of 0 is the score
\* with that bound absent, so a maximum of 0 imposes no upper limit and a
\* minimum of 0 is no minimum.
C29_ZeroBoundIsAbsent ==
    /\ PriceScored =>
          /\ ret.value = calculate_price_match_score(AsAbsent(call.price_min),
                                                     AsAbsent(call.price_max),
                                                     call.agreed_price)
          /\ (/\ call.price_max = Dec(0)
              /\ call.agreed_price.t = "Decimal"
              /\ call.agreed_price.n > 0
              /\ (call.price_min.t = "Decimal" => call.price_min.n <= call.agreed_price.n))
                => ret.value = One
    /\ LotSizeScored =>
          /\ ret.value = lot_size_component(call.lot.lot_size, call.lot.lot_size_unit,
                                            AsAbsent(call.lot_size_min),
                                            AsAbsent(call.lot_size_max))
          /\ (/\ call.lot_size_max = Dec(0)
              /\ call.lot.lot_size.t = "Decimal"
              /\ call.lot.lot_size.n > 0
              /\ (call.lot_size_min.t = "Decimal"
                     => RatLe(Frac(call.lot_size_min.n, 1), AcresOf(call.lot))))
                => ret.value = One

\* A price of 60,000 against a minimum of 0 and a maximum of 0 scores 1.0.
C29_Witness ==
    /\ PriceScored
    /\ call.price_min = Dec(0)
    /\ call.price_max = Dec(0)
    /\ call.agreed_price = Dec(60000)
    /\ ret.value = One

\* The comma-separated segments of a text that are neither taken as the
\* country nor emptied by postal-code stripping.
SegmentsLeft(text) ==
    LET segments == stripped_parts(split(strip(text), ","))
        rest == IF segments # <<>> /\ is_known_country(segments[Len(segments)])
                THEN SubSeq(segments, 1, Len(segments) - 1)
                ELSE segments
    IN  non_empty([i \in 1..Len(rest) |-> zip_step(rest[i]).part])

\* C30: the fallback is used only when one of the two texts parses to no
\* city: whenever both texts have a segment that is neither taken as the
\* country nor emptied by postal-code stripping, the denominator is at least 1
\* and the score is numerator / denominator, or 0.1 on a country mismatch,
\* never a token-overlap value.
C30_FallbackOnlyWithoutCity ==
    LocationScored =>
        /\ SegmentsLeft(call.buyer_address) # <<>> /\ SegmentsLeft(call.property_address) # <<>>
              => \/ /\ ret.value.reason = "calculation"
                    /\ ret.value.total_components >= 1
                    /\ ret.value.score = Frac(ret.value.matches, ret.value.total_components)
                 \/ /\ ret.value.reason = "country_mismatch"
                    /\ ret.value.score = Frac(1, 10)
        /\ FellBack
              => \/ extract_location_components(call.buyer_address).city = None
                 \/ extract_location_components(call.property_address).city = None

\* Both texts have a city and nothing else is shared: one component compared.
C30_Witness ==
    /\ LocationScored
    /\ SegmentsLeft(call.buyer_address) # <<>>
    /\ SegmentsLeft(call.property_address) # <<>>
    /\ ret.value.reason = "calculation"
    /\ ret.value.total_components = 1
    /\ ret.value.matches = 0
    /\ Tokens(call.buyer_address) \cap Tokens(call.property_address) # {}

====
